---- MODULE Spec2Model ----
(***************************************************************************)
(* Model of the masterkey vault engine (vault/vault.go) and its advisory   *)
(* file lock (filelock/filelock.go).                                       *)
(*                                                                         *)
(* Idealisations of the cryptographic collaborators:                       *)
(*  - a KDF output is the record of its inputs (deterministic, no          *)
(*    collisions);                                                         *)
(*  - a sealed blob is the record of algorithm, key, nonce and plaintext;  *)
(*    opening succeeds exactly under the same algorithm, key and nonce;    *)
(*  - crypto/rand never returns the same 24 bytes twice: a draw is the     *)
(*    triple <<session, call number, draw number>>.                        *)
(* Each session is one sequential caller (a process) that owns at most one *)
(* vault handle.  Steps on the file system (stat, create, read, rename,    *)
(* remove) are the atomic steps that sessions interleave on.               *)
(***************************************************************************)
EXTENDS Integers, Sequences, FiniteSets, TLC

VARIABLES h, fs, lck, ret, rnd, seals, reused, savedView, savedVia, ref, res,
          pw, rp, clip, g

vars == <<h, fs, lck, ret, rnd, seals, reused, savedView, savedVia>>

\* The observer of the in-memory calls: the reference map and the result of
\* the last call.
mvars == <<ref, res>>

\* The components of the program outside the vault package: the call of the
\* passphrase generator, the interactive session of main, the clipboard of
\* package secureclip and the goroutines that call one handle concurrently.
cvars == <<pw, rp, clip, g>>

allvars == <<vars, mvars, cvars>>

(***************************************************************************)
(* Bounds of the model.                                                    *)
(***************************************************************************)
MaxRand == 2

Sessions == {"s1", "s2"}
Paths == {"/d/v"}
Names == {"v", "/d/v"}
Passphrases == {"P", "Q"}
MetaKeys == {"k", "kk"}

\* The locations in use, in the order of sort.Strings.
SortedLocs == <<"a", "ab">>

Locs == {SortedLocs[i] : i \in DOMAIN SortedLocs}

\* The search texts of Find and FindMeta.
SearchTexts == {"", "a", "b", "c", "k"}

(***************************************************************************)
(* Go strings: the bytes of the strings in use, strings.Contains, the      *)
(* byte-wise order < of strings, and sort.Strings.                         *)
(***************************************************************************)
Chars(str) ==
  CASE str = "" -> <<>>
    [] str = "a" -> <<97>>
    [] str = "b" -> <<98>>
    [] str = "c" -> <<99>>
    [] str = "k" -> <<107>>
    [] str = "ab" -> <<97, 98>>
    [] str = "kk" -> <<107, 107>>

\* strings.Contains(str, substr)
Contains(str, substr) ==
  LET S == Chars(str)
      T == Chars(substr)
  IN \E i \in 0..(Len(S) - Len(T)) : SubSeq(S, i + 1, i + Len(T)) = T

RECURSIVE LessBytes(_, _)
LessBytes(S, T) ==
  IF T = <<>> THEN FALSE
  ELSE IF S = <<>> THEN TRUE
  ELSE IF Head(S) # Head(T) THEN Head(S) < Head(T)
  ELSE LessBytes(Tail(S), Tail(T))

\* str < other, as Go compares strings
Less(str, other) == LessBytes(Chars(str), Chars(other))

RECURSIVE Insert(_, _)
Insert(str, sorted) ==
  IF sorted = <<>> THEN <<str>>
  ELSE IF Less(Head(sorted), str)
    THEN <<Head(sorted)>> \o Insert(str, Tail(sorted))
  ELSE <<str>> \o sorted

RECURSIVE sortStrings(_)

\* Variant: the slice is returned in the order it was built.
sortStringsNone(strs) == strs

\* sort.Strings(strs)
sortStrings(strs) ==
  IF strs = <<>> THEN <<>> ELSE Insert(Head(strs), sortStrings(Tail(strs)))

\* The orders in which `range` may visit the keys S of a map.
RangeOrders(S) ==
  {o \in [1..Cardinality(S) -> S] : \A i, j \in DOMAIN o : i # j => o[i] # o[j]}

\* The order of one run.
RangeOrder(S) == CHOOSE o \in RangeOrders(S) : TRUE

(***************************************************************************)
(* Program constants.                                                      *)
(***************************************************************************)
scryptN == 16384
scryptR == 8
scryptP == 1
defaultArgonTime == 3
defaultArgonMemory == 2000000
NumCPU == 4
HeaderLen == 48
JsonLen == 200

(***************************************************************************)
(* Values.                                                                 *)
(***************************************************************************)
Zero24 == <<"zero", 0, 0>>
TextBytes == <<"text", 0, 0>>
LegacySalt == <<"old", 0, 1>>
LegacyNonce == <<"old", 0, 2>>

NoVal == "<absent>"
NoCred == [present |-> FALSE, Username |-> "", Password |-> "",
           metaNil |-> TRUE, meta |-> [k \in MetaKeys |-> NoVal]]
EmptyCreds == [l \in Locs |-> NoCred]
NilMeta == [k \in MetaKeys |-> NoVal]

\* Credential{Username: u, Password: p}: the Meta map is nil.
Credential(u, p) ==
  [present |-> TRUE, Username |-> u, Password |-> p,
   metaNil |-> TRUE, meta |-> NilMeta]

ZeroKey == [kdf |-> "zero", pass |-> "", salt |-> Zero24,
            time |-> 0, mem |-> 0, lanes |-> 0]

\* argon2.IDKey(passphrase, salt, time, memory, threads, keyLen)
argon2IDKey(pass, salt, t, m, l) ==
  [kdf |-> "argon2id", pass |-> pass, salt |-> salt,
   time |-> t, mem |-> m, lanes |-> l]

\* argon2.IDKey panics when time < 1 or threads < 1.
argon2Panics(t, l) == t < 1 \/ l < 1

\* scrypt.Key(passphrase, salt, scryptN, scryptR, scryptP, keyLen)
scryptKey(pass, salt) ==
  [kdf |-> "scrypt", pass |-> pass, salt |-> salt,
   time |-> scryptN, mem |-> scryptR, lanes |-> scryptP]

NoData == [alg |-> "nil", key |-> ZeroKey, nonce |-> Zero24, plain |-> {}]
Garbage == [alg |-> "garbage", key |-> ZeroKey, nonce |-> Zero24, plain |-> {}]

\* aead.Seal / secretbox.Seal
Seal(alg, key, nonce, plain) ==
  [alg |-> alg, key |-> key, nonce |-> nonce, plain |-> plain]

\* Variant: the authentication tag is not bound to the key.
CanOpenAnyKey(alg, key, nonce, box) ==
  box.alg = alg /\ box.nonce = nonce

\* aead.Open / secretbox.Open: fails closed on any other key, nonce or blob.
CanOpen(alg, key, nonce, box) ==
  box.alg = alg /\ box.key = key /\ box.nonce = nonce

(***************************************************************************)
(* encoding/gob of map[string]*Credential.  A map entry is sent for every  *)
(* key; a nil Meta map is omitted from the struct, an empty non-nil one is *)
(* sent with zero elements.                                                *)
(***************************************************************************)
GobMeta(c) ==
  IF c.metaNil THEN <<FALSE, {}>>
  ELSE <<TRUE, {<<k, c.meta[k]>> : k \in {x \in MetaKeys : c.meta[x] # NoVal}}>>

GobEncode(creds) ==
  {<<l, creds[l].Username, creds[l].Password, GobMeta(creds[l])>> :
     l \in {x \in Locs : creds[x].present}}

GobDecodeMeta(m) ==
  [k \in MetaKeys |->
     IF \E e \in m[2] : e[1] = k
       THEN (CHOOSE e \in m[2] : e[1] = k)[2]
       ELSE NoVal]

GobDecode(plain) ==
  [l \in Locs |->
     IF \E e \in plain : e[1] = l
       THEN LET e == CHOOSE x \in plain : x[1] = l
            IN [present |-> TRUE, Username |-> e[2], Password |-> e[3],
                metaNil |-> ~e[4][1], meta |-> GobDecodeMeta(e[4])]
       ELSE NoCred]

(***************************************************************************)
(* Files.  A file is absent, the JSON text of a vaultFile, raw bytes       *)
(* (salt || nonce || box when at least HeaderLen long).                    *)
(***************************************************************************)
NoFile == [kind |-> "absent", len |-> 0,
           ArgonTime |-> 0, ArgonMemory |-> 0, ArgonLanes |-> 0,
           Nonce |-> Zero24, Salt |-> Zero24, Data |-> NoData]

EmptyFile == [NoFile EXCEPT !.kind = "raw"]

\* json.NewEncoder(tempfile).Encode(&vf)
jsonEncode(vf) ==
  [kind |-> "json", len |-> JsonLen,
   ArgonTime |-> vf.ArgonTime, ArgonMemory |-> vf.ArgonMemory,
   ArgonLanes |-> vf.ArgonLanes,
   Nonce |-> vf.Nonce, Salt |-> vf.Salt, Data |-> vf.Data]

\* The JSON text {}: it decodes to the zero vaultFile.
DegenerateFile == [NoFile EXCEPT !.kind = "json", !.len = 2]

\* json.NewDecoder(f).Decode(&vf): only a complete JSON text decodes.
jsonDecodes(f) == f.kind = "json"

\* The bytes of a file as ioutil.ReadFile returns them to openVaultCompat.
ReadFile(f) ==
  IF f.kind = "raw"
    THEN [len |-> f.len, salt |-> f.Salt, nonce |-> f.Nonce, box |-> f.Data]
    ELSE [len |-> f.len, salt |-> TextBytes, nonce |-> TextBytes, box |-> Garbage]

\* A vault written by the legacy program: secretbox under an scrypt key.
BoxBytes == <<"box", 0, 24>>

LegacyCreds == [EmptyCreds EXCEPT !["a"] = Credential("u", "x")]

LegacyFile(pass) ==
  [kind |-> "raw", len |-> 100,
   ArgonTime |-> 0, ArgonMemory |-> 0, ArgonLanes |-> 0,
   Nonce |-> LegacyNonce, Salt |-> LegacySalt,
   Data |-> Seal("secretbox", scryptKey(pass, LegacySalt), LegacyNonce,
                 GobEncode(LegacyCreds))]

(***************************************************************************)
(* Handles.                                                                *)
(***************************************************************************)
NoLock == ""
NoVault == [st |-> "none", pc |-> "idle", data |-> NoData,
            nonce |-> Zero24, salt |-> Zero24, secret |-> ZeroKey,
            argonTime |-> 0, argonMemory |-> 0, argonLanes |-> 0,
            lock |-> NoLock, via |-> "none",
            path |-> "", pass |-> "", tmp |-> NoFile]

Crashed == [NoVault EXCEPT !.st = "crashed"]

Ret(op, err) == [op |-> op, err |-> err]

\* The result of an in-memory call as its caller sees it: the call, its
\* error and the values it returned.
NoRes == [op |-> "none", err |-> "nil", loc |-> "", name |-> "", text |-> "",
          cred |-> NoCred, locations |-> <<>>, value |-> "", n |-> 0,
          input |-> <<>>]

\* filepath.Abs with working directory /d
Abs(name) == IF name = "v" THEN "/d/v" ELSE name

\* io.ReadFull(rand.Reader, ...): the i-th draw of the current call of
\* session s; rnd[s] counts the calls of s that have read rand.Reader.
Draw(s, i) == <<s, rnd[s] + 1, i>>

\* New and the in-memory calls draw while the budget lasts.
CanDraw(s) == rnd[s] < MaxRand

\* Open may draw once more, so that a vault changed up to the budget can
\* still be saved and opened again.
CanDrawOpen(s) == rnd[s] <= MaxRand

Idle(s) == h[s].pc = "idle" /\ h[s].st # "crashed"
HasVault(s) == Idle(s) /\ h[s].st \in {"open", "closed"}

\* Every seal is recorded with the (key, nonce) pair it used.
Sealed(v) ==
  /\ seals' = seals \cup {<<v.secret, v.nonce>>}
  /\ reused' = (reused \/ <<v.secret, v.nonce>> \in seals)

(***************************************************************************)
(* decrypt / encrypt                                                       *)
(***************************************************************************)
decrypt(v) ==
  IF CanOpen("xchacha20poly1305", v.secret, v.nonce, v.data)
    THEN [err |-> "nil", creds |-> GobDecode(v.data.plain)]
    ELSE [err |-> "ErrCouldNotDecrypt", creds |-> EmptyCreds]

\* Variant: seals under the nonce the handle already holds.
encryptKeepNonce(v, creds, n) ==
  [v EXCEPT !.data = Seal("xchacha20poly1305", v.secret, v.nonce,
                          GobEncode(creds))]

\* encrypt draws the nonce n, then seals the gob encoding of creds.
encrypt(v, creds, n) ==
  [v EXCEPT !.nonce = n,
            !.data = Seal("xchacha20poly1305", v.secret, n, GobEncode(creds))]

\* Variant: the Salt field is filled from the nonce.
vaultFileOfNonceAsSalt(v) ==
  [Nonce |-> v.nonce, Salt |-> v.nonce, ArgonTime |-> v.argonTime,
   ArgonMemory |-> v.argonMemory, ArgonLanes |-> v.argonLanes, Data |-> v.data]

vaultFileOf(v) ==
  [Nonce |-> v.nonce, Salt |-> v.salt, ArgonTime |-> v.argonTime,
   ArgonMemory |-> v.argonMemory, ArgonLanes |-> v.argonLanes, Data |-> v.data]

\* Variant: the key is derived with the nonce in the place of the salt.
NewVaultNonceSalt(passphrase, d1, d2, d3) ==
  encrypt([NoVault EXCEPT
             !.st = "open", !.via = "new",
             !.nonce = d1, !.salt = d2,
             !.secret = argon2IDKey(passphrase, d1, defaultArgonTime,
                                    defaultArgonMemory, NumCPU),
             !.argonTime = defaultArgonTime,
             !.argonMemory = defaultArgonMemory,
             !.argonLanes = NumCPU],
          EmptyCreds, d3)

NewVault(passphrase, d1, d2, d3) ==
  encrypt([NoVault EXCEPT
             !.st = "open", !.via = "new",
             !.nonce = d1, !.salt = d2,
             !.secret = argon2IDKey(passphrase, d2, defaultArgonTime,
                                    defaultArgonMemory, NumCPU),
             !.argonTime = defaultArgonTime,
             !.argonMemory = defaultArgonMemory,
             !.argonLanes = NumCPU],
          EmptyCreds, d3)

\* A vault file left by an earlier run of the program: New, one Add, Save.
SavedFile(pass) ==
  jsonEncode(vaultFileOf(
    encrypt(NewVault(pass, <<"old", 0, 3>>, <<"old", 0, 4>>, <<"old", 0, 5>>),
            LegacyCreds, <<"old", 0, 6>>)))

\* A vault written by the oldest program: nonce(24) || secretbox, the key
\* derived by scrypt with the nonce as salt.  openVaultCompat slices it as
\* salt || nonce || box: its salt is the file's nonce, its nonce the first 24
\* bytes of the secretbox and its box the rest of the secretbox, which is no
\* secretbox of its own.
OldestFile(pass) ==
  [kind |-> "raw", len |-> 100,
   ArgonTime |-> 0, ArgonMemory |-> 0, ArgonLanes |-> 0,
   Nonce |-> BoxBytes, Salt |-> LegacyNonce, Data |-> Garbage]

\* The vault path holds no file, an empty file, the JSON text {}, a vault in
\* one of the two legacy layouts or a vault in the current layout.
InitFiles ==
  {NoFile, EmptyFile, DegenerateFile, OldestFile("P"), LegacyFile("P"),
   SavedFile("P")}

(***************************************************************************)
(* pwgen.GeneratePassphrase                                                *)
(*                                                                         *)
(* A passphrase is the sequence of its characters.  One call is the test   *)
(* of the length, then one draw per character, then the return.  rand.Int  *)
(* panics when its bound is not positive, which is the length of an empty  *)
(* charset.                                                                *)
(***************************************************************************)
MaxLen == 3

Charsets == {<<>>, <<"a">>, <<"a", "b">>, <<"a", "b", "c">>}

Lengths == 0..MaxLen

NoCall == [pc |-> "idle", charset |-> <<>>, length |-> 0, i |-> 0,
           res |-> <<>>, out |-> <<>>, err |-> "nil"]

\* The -timeout flag of main, in ticks of the clock.
timeout == 2

\* The interactive session before setupRepl.  closed: r.stopChan is closed;
\* stops: the calls of the OnStop function; timer: what is left of the
\* time.After of the current iteration of Loop; idle: the time since
\* r.lastCommandTime; saved: the error of the Save of the OnStop function;
\* cause: what called Stop first; readerr: the reader has returned an error
\* other than readline.ErrInterrupt.
NoRepl == [pc |-> "main", closed |-> FALSE, stops |-> 0, timer |-> 0,
           idle |-> 0, saved |-> "none", cause |-> "none", readerr |-> FALSE]

\* secureclip.clipTimeout, in ticks of the clock, and the number of clear
\* timers that can be pending at once.
clipTimeout == 2

MaxTimers == 2

Timers == 1..MaxTimers

NoTimer == [pc |-> "none", left |-> 0]

\* Package secureclip before the first Clip.  clipboard: the system
\* clipboard; since: the time since lastClip; call: where the running Clip
\* call is; timers: the goroutines that Clip started; sinceCall: the time
\* since the most recent Clip call began; gen: the parity of the number of
\* Clip calls.
NoClip == [clipboard |-> "", since |-> 0, call |-> "idle",
           timers |-> [t \in Timers |-> NoTimer], sinceCall |-> clipTimeout,
           gen |-> 0]

Goroutines == {"g1", "g2"}

\* A goroutine that has not called the handle: its call, where it is in
\* it, the map it decrypted, the vaultFile it built and its result.
NoGo == [pc |-> "idle", op |-> "none", loc |-> "", creds |-> EmptyCreds,
         vf |-> vaultFileOf(NoVault), err |-> "nil"]

\* The components outside the vault package before their first call.
AtRest ==
  /\ pw = NoCall
  /\ rp = NoRepl
  /\ clip = NoClip
  /\ g = [t \in Goroutines |-> NoGo]

\* The call and the test of the length.
GeneratePassphrase(charset, length) ==
  /\ pw.pc # "loop"
  /\ pw' = IF length = 0
             THEN [NoCall EXCEPT !.pc = "return", !.charset = charset,
                                 !.length = length, !.err = "errBadLength"]
             ELSE [NoCall EXCEPT !.pc = "loop", !.charset = charset,
                                 !.length = length]

\* rand.Int(rand.Reader, max): a uniform value of [0, max); the reader of the
\* system's randomness does not fail.
randInt(max) == 0..(max - 1)

\* One iteration of the loop.
GenerateChar ==
  /\ pw.pc = "loop"
  /\ pw.i < pw.length
  /\ IF Len(pw.charset) <= 0
       THEN pw' = [pw EXCEPT !.pc = "panic"]
       ELSE \E randIndex \in randInt(Len(pw.charset)) :
              pw' = [pw EXCEPT !.res = Append(@, pw.charset[randIndex + 1]),
                               !.i = @ + 1]

\* The return after the last iteration.
GenerateReturn ==
  /\ pw.pc = "loop"
  /\ pw.i = pw.length
  /\ pw' = [pw EXCEPT !.pc = "return", !.out = pw.res, !.err = "nil"]

Init ==
  /\ h = [s \in Sessions |-> NoVault]
  /\ fs \in [Paths -> InitFiles]
  /\ lck = [p \in Paths |-> FALSE]
  /\ ret = [s \in Sessions |-> Ret("none", "nil")]
  /\ rnd = [s \in Sessions |-> 0]
  /\ seals = {}
  /\ reused = FALSE
  /\ savedView = [p \in Paths |-> [err |-> "none", creds |-> EmptyCreds]]
  /\ savedVia = [p \in Paths |-> "none"]
  /\ ref = EmptyCreds
  /\ res = NoRes
  /\ AtRest

Frame == UNCHANGED <<fs, lck, savedView, savedVia>>

(***************************************************************************)
(* New                                                                     *)
(***************************************************************************)
New(s, passphrase) ==
  /\ Idle(s) /\ h[s].st \in {"none", "closed"}
  /\ CanDraw(s)
  /\ LET v == NewVault(passphrase, Draw(s, 1), Draw(s, 2), Draw(s, 3))
     IN /\ h' = [h EXCEPT ![s] = v]
        /\ Sealed(v)
  /\ rnd' = [rnd EXCEPT ![s] = @ + 1]
  /\ ret' = [ret EXCEPT ![s] = Ret("New", "nil")]
  /\ Frame

(***************************************************************************)
(* filelock.Lock, as called by Open: os.Stat, then os.Create.              *)
(***************************************************************************)
LockPath(path) == path

\* Open entered; Lock's os.Stat finds the lock file: ErrLocked.
LockStatLocked(s, name, passphrase) ==
  /\ Idle(s)
  /\ lck[LockPath(Abs(name))]
  /\ ret' = [ret EXCEPT ![s] = Ret("Open", "ErrLocked")]
  /\ UNCHANGED <<h, fs, lck, rnd, seals, reused, savedView, savedVia>>

\* Open entered; Lock's os.Stat finds no lock file.
LockStatFree(s, name, passphrase) ==
  /\ Idle(s) /\ (h[s].st \in {"none", "closed"} \/ h[s].lock = NoLock)
  /\ ~lck[LockPath(Abs(name))]
  /\ h' = [h EXCEPT ![s] = [NoVault EXCEPT !.pc = "Lock.Create",
                                           !.path = Abs(name),
                                           !.pass = passphrase]]
  /\ UNCHANGED <<fs, lck, ret, rnd, seals, reused, savedView, savedVia>>

\* Lock's os.Create: creates (or truncates) the lock file.
LockCreate(s) ==
  /\ h[s].pc = "Lock.Create"
  /\ lck' = [lck EXCEPT ![LockPath(h[s].path)] = TRUE]
  /\ h' = [h EXCEPT ![s].pc = "openVault"]
  /\ UNCHANGED <<fs, ret, rnd, seals, reused, savedView, savedVia>>

\* FileLock.Unlock: os.Remove of the lock file, whoever created it.
Unlock(path) == [lck EXCEPT ![LockPath(path)] = FALSE]

(***************************************************************************)
(* openVault: the current layout.                                          *)
(***************************************************************************)
\* The vault built from the decoded vaultFile, before rotation.
openVaultRead(f, passphrase) ==
  [NoVault EXCEPT
     !.data = f.Data, !.nonce = f.Nonce, !.salt = f.Salt,
     !.secret = argon2IDKey(passphrase, f.Salt, f.ArgonTime,
                            f.ArgonMemory, f.ArgonLanes),
     !.argonTime = f.ArgonTime, !.argonMemory = f.ArgonMemory,
     !.argonLanes = f.ArgonLanes]

\* "ok", "error" (fall back to the legacy layout) or "panic"
openVaultOutcome(f, passphrase) ==
  IF f.kind = "absent" \/ ~jsonDecodes(f) THEN "error"
  ELSE IF argon2Panics(f.ArgonTime, f.ArgonLanes) THEN "panic"
  ELSE IF decrypt(openVaultRead(f, passphrase)).err # "nil" THEN "error"
  ELSE "ok"

\* Rotation: new salt, key re-derived from it, re-sealed under a new nonce.
openVaultRotate(v, passphrase, salt, nonce) ==
  LET creds == decrypt(v).creds
      v1 == [v EXCEPT !.salt = salt,
                      !.secret = argon2IDKey(passphrase, salt, v.argonTime,
                                             v.argonMemory, v.argonLanes)]
  IN encrypt(v1, creds, nonce)

openVault(s) ==
  /\ h[s].pc = "openVault"
  /\ LET f == fs[h[s].path]
         out == openVaultOutcome(f, h[s].pass)
     IN CASE out = "ok" ->
               /\ CanDrawOpen(s)
               /\ LET v == [openVaultRotate(openVaultRead(f, h[s].pass), h[s].pass,
                                         Draw(s, 1), Draw(s, 2))
                             EXCEPT !.st = "open", !.via = "current",
                                    !.lock = h[s].path]
                  IN /\ h' = [h EXCEPT ![s] = v]
                     /\ Sealed(v)
               /\ rnd' = [rnd EXCEPT ![s] = @ + 1]
               /\ ret' = [ret EXCEPT ![s] = Ret("Open", "nil")]
          [] out = "error" ->
               /\ h' = [h EXCEPT ![s].pc = "openVaultCompat"]
               /\ UNCHANGED <<ret, rnd, seals, reused>>
          [] out = "panic" ->
               /\ h' = [h EXCEPT ![s] = Crashed]
               /\ ret' = [ret EXCEPT ![s] = Ret("Open", "panic")]
               /\ UNCHANGED <<rnd, seals, reused>>
  /\ Frame

(***************************************************************************)
(* openVaultCompat: the legacy layout salt(24) || nonce(24) || secretbox.  *)
(***************************************************************************)
openVaultCompatOutcome(f, passphrase) ==
  LET bs == ReadFile(f) IN
  IF f.kind = "absent" THEN "ErrNotExist"
  ELSE IF bs.len < HeaderLen THEN "panic"
  ELSE IF ~CanOpen("secretbox", scryptKey(passphrase, bs.salt), bs.nonce, bs.box)
    THEN "ErrCouldNotDecrypt"
  ELSE "nil"

\* Variant: the key stays the scrypt key of the legacy layout.
openVaultCompatVaultScrypt(f, passphrase, nonce) ==
  LET bs == ReadFile(f)
      v == [NoVault EXCEPT
              !.salt = bs.salt,
              !.secret = scryptKey(passphrase, bs.salt),
              !.argonLanes = NumCPU,
              !.argonTime = defaultArgonTime,
              !.argonMemory = defaultArgonMemory]
  IN encrypt(v, GobDecode(bs.box.plain), nonce)

openVaultCompatVault(f, passphrase, nonce) ==
  LET bs == ReadFile(f)
      v == [NoVault EXCEPT
              !.salt = bs.salt,
              !.secret = argon2IDKey(passphrase, bs.salt, defaultArgonTime,
                                     defaultArgonMemory, NumCPU),
              !.argonLanes = NumCPU,
              !.argonTime = defaultArgonTime,
              !.argonMemory = defaultArgonMemory]
  IN encrypt(v, GobDecode(bs.box.plain), nonce)

openVaultCompat(s) ==
  /\ h[s].pc = "openVaultCompat"
  /\ LET f == fs[h[s].path]
         out == openVaultCompatOutcome(f, h[s].pass)
     IN CASE out = "nil" ->
               /\ CanDrawOpen(s)
               /\ LET v == [openVaultCompatVault(f, h[s].pass, Draw(s, 1))
                             EXCEPT !.st = "open", !.via = "legacy",
                                    !.lock = h[s].path]
                  IN /\ h' = [h EXCEPT ![s] = v]
                     /\ Sealed(v)
               /\ rnd' = [rnd EXCEPT ![s] = @ + 1]
               /\ ret' = [ret EXCEPT ![s] = Ret("Open", "nil")]
               /\ UNCHANGED lck
          [] out = "panic" ->
               /\ h' = [h EXCEPT ![s] = Crashed]
               /\ ret' = [ret EXCEPT ![s] = Ret("Open", "panic")]
               /\ UNCHANGED <<lck, rnd, seals, reused>>
          [] OTHER ->
               /\ lck' = Unlock(h[s].path)
               /\ h' = [h EXCEPT ![s] = NoVault]
               /\ ret' = [ret EXCEPT ![s] = Ret("Open", out)]
               /\ UNCHANGED <<rnd, seals, reused>>
  /\ UNCHANGED <<fs, savedView, savedVia>>

(***************************************************************************)
(* Close                                                                   *)
(***************************************************************************)
\* Variant: releases the lock and leaves the key in place.
CloseKeepKey(s) ==
  /\ HasVault(s)
  /\ h' = [h EXCEPT ![s].st = "closed"]
  /\ IF h[s].lock # NoLock
       THEN /\ lck' = Unlock(h[s].lock)
            /\ ret' = [ret EXCEPT ![s] =
                 Ret("Close", IF lck[LockPath(h[s].lock)] THEN "nil" ELSE "ErrNotExist")]
       ELSE /\ ret' = [ret EXCEPT ![s] = Ret("Close", "nil")]
            /\ UNCHANGED lck
  /\ UNCHANGED <<fs, rnd, seals, reused, savedView, savedVia>>

Close(s) ==
  /\ HasVault(s)
  /\ h' = [h EXCEPT ![s].secret = ZeroKey, ![s].st = "closed"]
  /\ IF h[s].lock # NoLock
       THEN /\ lck' = Unlock(h[s].lock)
            /\ ret' = [ret EXCEPT ![s] =
                 Ret("Close", IF lck[LockPath(h[s].lock)] THEN "nil" ELSE "ErrNotExist")]
       ELSE /\ ret' = [ret EXCEPT ![s] = Ret("Close", "nil")]
            /\ UNCHANGED lck
  /\ UNCHANGED <<fs, rnd, seals, reused, savedView, savedVia>>

(***************************************************************************)
(* Save: temp file, encode, sync, close, rename.                           *)
(***************************************************************************)
SavePcs == {"Save.Encode", "Save.Sync", "Save.Close", "Save.Rename"}

\* Variant: Save seals the credentials again, under a new nonce, before it
\* writes them.
SaveTempFileReseal(s, name) ==
  /\ HasVault(s)
  /\ h' = [h EXCEPT ![s] =
            [encrypt(h[s], decrypt(h[s]).creds, Draw(s, 1))
               EXCEPT !.pc = "Save.Encode", !.path = Abs(name),
                      !.tmp = EmptyFile]]
  /\ UNCHANGED <<fs, lck, ret, rnd, seals, reused, savedView, savedVia>>

\* ioutil.TempFile succeeds: a new, empty file with a unique name.
SaveTempFile(s, name) ==
  /\ HasVault(s)
  /\ h' = [h EXCEPT ![s].pc = "Save.Encode", ![s].path = Abs(name),
                    ![s].tmp = EmptyFile]
  /\ UNCHANGED <<fs, lck, ret, rnd, seals, reused, savedView, savedVia>>

\* ioutil.TempFile fails.
SaveTempFileError(s, name) ==
  /\ HasVault(s)
  /\ ret' = [ret EXCEPT ![s] = Ret("Save", "IOError")]
  /\ UNCHANGED <<h, fs, lck, rnd, seals, reused, savedView, savedVia>>

\* Variant: the encoder writes to the target file itself.
SaveEncodeInPlace(s) ==
  /\ h[s].pc = "Save.Encode"
  /\ h' = [h EXCEPT ![s].pc = "Save.Sync",
                    ![s].tmp = jsonEncode(vaultFileOf(h[s]))]
  /\ fs' = [fs EXCEPT ![h[s].path] = jsonEncode(vaultFileOf(h[s]))]
  /\ UNCHANGED <<lck, ret, rnd, seals, reused, savedView, savedVia>>

SaveEncode(s) ==
  /\ h[s].pc = "Save.Encode"
  /\ h' = [h EXCEPT ![s].pc = "Save.Sync",
                    ![s].tmp = jsonEncode(vaultFileOf(h[s]))]
  /\ UNCHANGED <<fs, lck, ret, rnd, seals, reused, savedView, savedVia>>

SaveSync(s) ==
  /\ h[s].pc = "Save.Sync"
  /\ h' = [h EXCEPT ![s].pc = "Save.Close"]
  /\ UNCHANGED <<fs, lck, ret, rnd, seals, reused, savedView, savedVia>>

SaveClose(s) ==
  /\ h[s].pc = "Save.Close"
  /\ h' = [h EXCEPT ![s].pc = "Save.Rename"]
  /\ UNCHANGED <<fs, lck, ret, rnd, seals, reused, savedView, savedVia>>

\* os.Rename(tempfile.Name(), filename): atomic replacement of the target.
SaveRename(s) ==
  /\ h[s].pc = "Save.Rename"
  /\ fs' = [fs EXCEPT ![h[s].path] = h[s].tmp]
  /\ savedView' = [savedView EXCEPT ![h[s].path] = decrypt(h[s])]
  /\ savedVia' = [savedVia EXCEPT ![h[s].path] = h[s].via]
  /\ h' = [h EXCEPT ![s].pc = "idle", ![s].path = "", ![s].tmp = NoFile]
  /\ ret' = [ret EXCEPT ![s] = Ret("Save", "nil")]
  /\ UNCHANGED <<lck, rnd, seals, reused>>

\* An I/O error in Encode (a short write), Sync, Close or Rename: Save
\* returns the error; the temporary file is left behind.
SaveError(s) ==
  /\ h[s].pc \in SavePcs
  /\ h' = [h EXCEPT ![s].pc = "idle", ![s].path = "", ![s].tmp = NoFile]
  /\ ret' = [ret EXCEPT ![s] = Ret("Save", "IOError")]
  /\ UNCHANGED <<fs, lck, rnd, seals, reused, savedView, savedVia>>

(***************************************************************************)
(* The process of a session terminates without running Close.              *)
(***************************************************************************)
Crash(s) ==
  /\ h[s].st # "crashed"
  /\ h[s].st # "none" \/ h[s].pc # "idle"
  /\ h' = [h EXCEPT ![s] = Crashed]
  /\ ret' = [ret EXCEPT ![s] = Ret("exit", "killed")]
  /\ UNCHANGED <<fs, lck, rnd, seals, reused, savedView, savedVia>>

\* The user starts the program again after it was killed.
Restart(s) ==
  /\ h[s].st = "crashed"
  /\ h' = [h EXCEPT ![s] = NoVault]
  /\ UNCHANGED <<fs, lck, ret, rnd, seals, reused, savedView, savedVia>>

(***************************************************************************)
(* In-memory operations: decrypt, change the map, encrypt.                 *)
(***************************************************************************)
\* Variant: a handle that was opened from a file writes every re-seal
\* through to that file.
ResealWriteThrough(s, err, creds) ==
  IF err = "nil"
    THEN /\ CanDraw(s)
         /\ LET v == encrypt(h[s], creds, Draw(s, 1))
            IN /\ h' = [h EXCEPT ![s] = v]
               /\ Sealed(v)
               /\ fs' = IF v.lock # NoLock
                          THEN [fs EXCEPT ![v.lock] = jsonEncode(vaultFileOf(v))]
                          ELSE fs
         /\ rnd' = [rnd EXCEPT ![s] = @ + 1]
         /\ UNCHANGED <<lck, ret, savedView, savedVia>>
    ELSE UNCHANGED vars

\* The common tail of a mutating operation: on an error the call returns
\* with the handle as it is, otherwise `return v.encrypt(creds)`.  The result
\* of an in-memory call goes to its caller only; it is given by the
\* ...Result operators.
Reseal(s, err, creds) ==
  IF err = "nil"
    THEN /\ CanDraw(s)
         /\ LET v == encrypt(h[s], creds, Draw(s, 1))
            IN /\ h' = [h EXCEPT ![s] = v]
               /\ Sealed(v)
         /\ rnd' = [rnd EXCEPT ![s] = @ + 1]
         /\ UNCHANGED <<fs, lck, ret, savedView, savedVia>>
    ELSE UNCHANGED vars

\* Variant: stores the credential whether or not the location is in use.
AddResultOverwrite(v, location, credential) ==
  LET d == decrypt(v) IN
  IF d.err # "nil" THEN d
  ELSE [err |-> "nil", creds |-> [d.creds EXCEPT ![location] = credential]]

AddResult(v, location, credential) ==
  LET d == decrypt(v) IN
  IF d.err # "nil" THEN d
  ELSE IF d.creds[location].present
    THEN [err |-> "ErrCredentialExists", creds |-> d.creds]
  ELSE [err |-> "nil", creds |-> [d.creds EXCEPT ![location] = credential]]

Add(s, location, credential) ==
  /\ HasVault(s)
  /\ LET r == AddResult(h[s], location, credential)
     IN Reseal(s, r.err, r.creds)

\* pwgen.GeneratePassphrase(CharsetAlphaNum, genPasswordLen), then Add.
Generate(s, location, username, phrase) ==
  /\ HasVault(s)
  /\ LET r == AddResult(h[s], location, Credential(username, phrase))
     IN Reseal(s, r.err, r.creds)

\* Variant: stores the credential with the Meta it carries.
EditResultNewMeta(v, location, credential) ==
  LET d == decrypt(v) IN
  IF d.err # "nil" THEN d
  ELSE IF ~d.creds[location].present
    THEN [err |-> "ErrNoSuchCredential", creds |-> d.creds]
  ELSE [err |-> "nil", creds |-> [d.creds EXCEPT ![location] = credential]]

EditResult(v, location, credential) ==
  LET d == decrypt(v) IN
  IF d.err # "nil" THEN d
  ELSE IF ~d.creds[location].present
    THEN [err |-> "ErrNoSuchCredential", creds |-> d.creds]
  ELSE [err |-> "nil",
        creds |-> [d.creds EXCEPT ![location] =
                     [credential EXCEPT !.metaNil = d.creds[location].metaNil,
                                        !.meta = d.creds[location].meta]]]

Edit(s, location, credential) ==
  /\ HasVault(s)
  /\ LET r == EditResult(h[s], location, credential)
     IN Reseal(s, r.err, r.creds)

\* Variant: re-seals the vault when the location is absent.
DeleteResultAbsentOk(v, location) ==
  LET d == decrypt(v) IN
  IF d.err # "nil" THEN d
  ELSE [err |-> "nil", creds |-> [d.creds EXCEPT ![location] = NoCred]]

DeleteResult(v, location) ==
  LET d == decrypt(v) IN
  IF d.err # "nil" THEN d
  ELSE IF ~d.creds[location].present
    THEN [err |-> "ErrNoSuchCredential", creds |-> d.creds]
  ELSE [err |-> "nil", creds |-> [d.creds EXCEPT ![location] = NoCred]]

Delete(s, location) ==
  /\ HasVault(s)
  /\ LET r == DeleteResult(h[s], location)
     IN Reseal(s, r.err, r.creds)

\* Variant: sets the tag whether or not the name is in use.
AddMetaResultOverwrite(v, location, name, value) ==
  LET d == decrypt(v) IN
  IF d.err # "nil" THEN d
  ELSE IF ~d.creds[location].present
    THEN [err |-> "ErrNoSuchCredential", creds |-> d.creds]
  ELSE [err |-> "nil",
        creds |-> [d.creds EXCEPT ![location].metaNil = FALSE,
                                  ![location].meta[name] = value]]

AddMetaResult(v, location, name, value) ==
  LET d == decrypt(v) IN
  IF d.err # "nil" THEN d
  ELSE IF ~d.creds[location].present
    THEN [err |-> "ErrNoSuchCredential", creds |-> d.creds]
  ELSE IF d.creds[location].meta[name] # NoVal
    THEN [err |-> "ErrMetaExists", creds |-> d.creds]
  ELSE [err |-> "nil",
        creds |-> [d.creds EXCEPT ![location].metaNil = FALSE,
                                  ![location].meta[name] = value]]

AddMeta(s, location, name, value) ==
  /\ HasVault(s)
  /\ LET r == AddMetaResult(h[s], location, name, value)
     IN Reseal(s, r.err, r.creds)

EditMetaResult(v, location, name, newvalue) ==
  LET d == decrypt(v) IN
  IF d.err # "nil" THEN d
  ELSE IF ~d.creds[location].present
    THEN [err |-> "ErrNoSuchCredential", creds |-> d.creds]
  ELSE IF d.creds[location].meta[name] = NoVal
    THEN [err |-> "ErrMetaDoesNotExist", creds |-> d.creds]
  ELSE [err |-> "nil", creds |-> [d.creds EXCEPT ![location].meta[name] = newvalue]]

EditMeta(s, location, name, newvalue) ==
  /\ HasVault(s)
  /\ LET r == EditMetaResult(h[s], location, name, newvalue)
     IN Reseal(s, r.err, r.creds)

\* Variant: removes every tag of the credential.
DeleteMetaResultAll(v, location, metaname) ==
  LET d == decrypt(v) IN
  IF d.err # "nil" THEN d
  ELSE IF ~d.creds[location].present
    THEN [err |-> "ErrNoSuchCredential", creds |-> d.creds]
  ELSE IF d.creds[location].meta[metaname] = NoVal
    THEN [err |-> "ErrMetaDoesNotExist", creds |-> d.creds]
  ELSE [err |-> "nil", creds |-> [d.creds EXCEPT ![location].meta = NilMeta]]

DeleteMetaResult(v, location, metaname) ==
  LET d == decrypt(v) IN
  IF d.err # "nil" THEN d
  ELSE IF ~d.creds[location].present
    THEN [err |-> "ErrNoSuchCredential", creds |-> d.creds]
  ELSE IF d.creds[location].meta[metaname] = NoVal
    THEN [err |-> "ErrMetaDoesNotExist", creds |-> d.creds]
  ELSE [err |-> "nil", creds |-> [d.creds EXCEPT ![location].meta[metaname] = NoVal]]

DeleteMeta(s, location, metaname) ==
  /\ HasVault(s)
  /\ LET r == DeleteMetaResult(h[s], location, metaname)
     IN Reseal(s, r.err, r.creds)

\* Variant: stores the new salt and derives the key from the salt the handle
\* held before.
ChangePassphraseResultOldSalt(v, newpassphrase, d1, d2, d3) ==
  LET d == decrypt(v) IN
  IF d.err # "nil" THEN [err |-> d.err, v |-> v]
  ELSE [err |-> "nil",
        v |-> encrypt([v EXCEPT
                         !.nonce = d1, !.salt = d2,
                         !.secret = argon2IDKey(newpassphrase, v.salt, v.argonTime,
                                                v.argonMemory, v.argonLanes),
                         !.via = IF newpassphrase = v.secret.pass
                                   THEN v.via ELSE "changed"],
                      d.creds, d3)]

\* via becomes "changed" when the new passphrase differs from the one the
\* handle's key was derived from.
ChangePassphraseResult(v, newpassphrase, d1, d2, d3) ==
  LET d == decrypt(v) IN
  IF d.err # "nil" THEN [err |-> d.err, v |-> v]
  ELSE [err |-> "nil",
        v |-> encrypt([v EXCEPT
                         !.nonce = d1, !.salt = d2,
                         !.secret = argon2IDKey(newpassphrase, d2, v.argonTime,
                                                v.argonMemory, v.argonLanes),
                         !.via = IF newpassphrase = v.secret.pass
                                   THEN v.via ELSE "changed"],
                      d.creds, d3)]

\* New nonce and salt, key derived from the new passphrase, then encrypt.
ChangePassphrase(s, newpassphrase) ==
  /\ HasVault(s)
  /\ LET r == ChangePassphraseResult(h[s], newpassphrase,
                                     Draw(s, 1), Draw(s, 2), Draw(s, 3))
     IN IF r.err = "nil"
          THEN /\ CanDraw(s)
               /\ h' = [h EXCEPT ![s] = r.v]
               /\ Sealed(r.v)
               /\ rnd' = [rnd EXCEPT ![s] = @ + 1]
               /\ UNCHANGED <<fs, lck, ret, savedView, savedVia>>
          ELSE UNCHANGED vars

\* Get and Locations, as functions of the handle.
Get(v, location) ==
  LET d == decrypt(v) IN
  IF d.err # "nil" THEN [err |-> d.err, cred |-> NoCred]
  ELSE IF ~d.creds[location].present
    THEN [err |-> "ErrNoSuchCredential", cred |-> NoCred]
  ELSE [err |-> "nil", cred |-> d.creds[location]]

\* Locations when `range creds` visits the keys in the given order.
LocationsIn(v, order) ==
  LET d == decrypt(v) IN
  [err |-> d.err,
   locations |-> IF d.err = "nil" THEN sortStrings(order) ELSE <<>>]

\* The locations of a credential map.
Keys(creds) == {l \in Locs : creds[l].present}

Locations(v) == LocationsIn(v, RangeOrder(Keys(decrypt(v).creds)))

(***************************************************************************)
(* Find and FindMeta: a loop for the exact match, then a loop for the      *)
(* substring match, each `range` in an order of its own.                   *)
(***************************************************************************)
\* The first element of order that is in matches.
First(order, matches) ==
  order[CHOOSE i \in DOMAIN order :
          order[i] \in matches /\ \A j \in DOMAIN order : order[j] \in matches => i <= j]

\* Variant: the substring loop alone.
FindInContainsOnly(v, searchtext, exactOrder, containsOrder) ==
  LET d == decrypt(v)
      IsMatch(l) == Contains(l, searchtext)
      Found(l) == [err |-> "nil", loc |-> l, cred |-> d.creds[l]]
  IN IF d.err # "nil" THEN [err |-> d.err, loc |-> "", cred |-> NoCred]
     ELSE IF \E i \in DOMAIN containsOrder : IsMatch(containsOrder[i])
       THEN Found(First(containsOrder, {x \in Locs : IsMatch(x)}))
     ELSE [err |-> "ErrNoSuchCredential", loc |-> "", cred |-> NoCred]

FindIn(v, searchtext, exactOrder, containsOrder) ==
  LET d == decrypt(v)
      IsExact(l) == l = searchtext
      IsMatch(l) == Contains(l, searchtext)
      Found(l) == [err |-> "nil", loc |-> l, cred |-> d.creds[l]]
  IN IF d.err # "nil" THEN [err |-> d.err, loc |-> "", cred |-> NoCred]
     ELSE IF \E i \in DOMAIN exactOrder : IsExact(exactOrder[i])
       THEN Found(First(exactOrder, {x \in Locs : IsExact(x)}))
     ELSE IF \E i \in DOMAIN containsOrder : IsMatch(containsOrder[i])
       THEN Found(First(containsOrder, {x \in Locs : IsMatch(x)}))
     ELSE [err |-> "ErrNoSuchCredential", loc |-> "", cred |-> NoCred]

\* Every result Find may return.
Find(v, searchtext) ==
  LET O == RangeOrders(Keys(decrypt(v).creds))
  IN {FindIn(v, searchtext, o1, o2) : o1 \in O, o2 \in O}

\* The metadata keys of a credential.
MetaNames(c) == {k \in MetaKeys : c.meta[k] # NoVal}

\* Variant: the substring loop alone.
FindMetaInContainsOnly(v, location, searchtext, exactOrder, containsOrder) ==
  LET d == decrypt(v)
      cred == d.creds[location]
      IsMatch(k) == Contains(k, searchtext)
      Found(k) == [err |-> "nil", name |-> k, value |-> cred.meta[k]]
  IN IF d.err # "nil" THEN [err |-> d.err, name |-> "", value |-> ""]
     ELSE IF ~cred.present
       THEN [err |-> "ErrNoSuchCredential", name |-> "", value |-> ""]
     ELSE IF \E i \in DOMAIN containsOrder : IsMatch(containsOrder[i])
       THEN Found(First(containsOrder, {x \in MetaKeys : IsMatch(x)}))
     ELSE [err |-> "ErrMetaDoesNotExist", name |-> "", value |-> ""]

FindMetaIn(v, location, searchtext, exactOrder, containsOrder) ==
  LET d == decrypt(v)
      cred == d.creds[location]
      IsExact(k) == k = searchtext
      IsMatch(k) == Contains(k, searchtext)
      Found(k) == [err |-> "nil", name |-> k, value |-> cred.meta[k]]
  IN IF d.err # "nil" THEN [err |-> d.err, name |-> "", value |-> ""]
     ELSE IF ~cred.present
       THEN [err |-> "ErrNoSuchCredential", name |-> "", value |-> ""]
     ELSE IF \E i \in DOMAIN exactOrder : IsExact(exactOrder[i])
       THEN Found(First(exactOrder, {x \in MetaKeys : IsExact(x)}))
     ELSE IF \E i \in DOMAIN containsOrder : IsMatch(containsOrder[i])
       THEN Found(First(containsOrder, {x \in MetaKeys : IsMatch(x)}))
     ELSE [err |-> "ErrMetaDoesNotExist", name |-> "", value |-> ""]

\* Every result FindMeta may return.
FindMeta(v, location, searchtext) ==
  LET O == RangeOrders(MetaNames(decrypt(v).creds[location]))
  IN {FindMetaIn(v, location, searchtext, o1, o2) : o1 \in O, o2 \in O}

(***************************************************************************)
(* Merge and LoadCSV: loops of Add and AddMeta on the handle.  A run is    *)
(* the handle so far, the (key, nonce) pairs sealed so far, the number of  *)
(* rows imported and the error that ended the loop.                        *)
(***************************************************************************)
Run(v) == [v |-> v, sealed |-> <<>>, n |-> 0, err |-> "nil", loc |-> ""]

\* v.encrypt(creds) inside a loop: the next draw of the call.
RunEncrypt(s, run, creds) ==
  LET v == encrypt(run.v, creds, Draw(s, Len(run.sealed) + 1))
  IN [run EXCEPT !.v = v, !.sealed = Append(@, <<v.secret, v.nonce>>)]

\* The handle and the seals of a finished run; a run that sealed nothing
\* leaves the handle as it is.
RunDone(s, run) ==
  IF run.sealed = <<>>
    THEN UNCHANGED vars
    ELSE /\ CanDraw(s)
         /\ h' = [h EXCEPT ![s] = run.v]
         /\ seals' = seals \cup {run.sealed[i] : i \in DOMAIN run.sealed}
         /\ reused' = \/ reused
                      \/ \E i \in DOMAIN run.sealed : run.sealed[i] \in seals
                      \/ \E i, j \in DOMAIN run.sealed :
                           i < j /\ run.sealed[i] = run.sealed[j]
         /\ rnd' = [rnd EXCEPT ![s] = @ + 1]
         /\ UNCHANGED <<fs, lck, ret, savedView, savedVia>>

\* A second vault held in memory, with one location or with two.
OtherCred == [Credential("u", "z") EXCEPT !.metaNil = FALSE, !.meta["k"] = "m"]

OtherVault(locs) ==
  encrypt(NewVault("Q", <<"other", 0, 1>>, <<"other", 0, 2>>, <<"other", 0, 3>>),
          [l \in Locs |-> IF l \in locs THEN OtherCred ELSE NoCred],
          <<"other", 0, 4>>)

OtherVaults == {OtherVault({"ab"}), OtherVault(Locs)}

RECURSIVE MergeLoop(_, _, _, _)

\* Variant: a location that is already in the vault is passed over.
MergeLoopSkip(s, run, otherVault, locs) ==
  IF locs = <<>> THEN run
  ELSE LET loc == Head(locs)
           otherCred == Get(otherVault, loc)
           r == AddResult(run.v, loc, otherCred.cred)
       IN IF Get(run.v, loc).err = "nil"
            THEN MergeLoop(s, run, otherVault, Tail(locs))
          ELSE IF otherCred.err # "nil" THEN [run EXCEPT !.err = otherCred.err]
          ELSE IF r.err # "nil" THEN [run EXCEPT !.err = r.err]
          ELSE MergeLoop(s, RunEncrypt(s, run, r.creds), otherVault, Tail(locs))

MergeLoop(s, run, otherVault, locs) ==
  IF locs = <<>> THEN run
  ELSE LET loc == Head(locs)
           otherCred == Get(otherVault, loc)
           r == AddResult(run.v, loc, otherCred.cred)
       IN IF Get(run.v, loc).err = "nil"
            THEN [run EXCEPT !.err = "merge conflict", !.loc = loc]
          ELSE IF otherCred.err # "nil" THEN [run EXCEPT !.err = otherCred.err]
          ELSE IF r.err # "nil" THEN [run EXCEPT !.err = r.err]
          ELSE MergeLoop(s, RunEncrypt(s, run, r.creds), otherVault, Tail(locs))

\* Variant: the loop ends after the first location.
MergeResultFirstOnly(s, v, otherVault) ==
  LET o == Locations(otherVault)
  IN IF o.err # "nil" THEN [Run(v) EXCEPT !.err = o.err]
     ELSE MergeLoop(s, Run(v), otherVault,
                    IF o.locations = <<>> THEN <<>> ELSE <<Head(o.locations)>>)

MergeResult(s, v, otherVault) ==
  LET o == Locations(otherVault)
  IN IF o.err # "nil" THEN [Run(v) EXCEPT !.err = o.err]
     ELSE MergeLoop(s, Run(v), otherVault, o.locations)

Merge(s, otherVault) ==
  /\ HasVault(s)
  /\ RunDone(s, MergeResult(s, h[s], otherVault))

\* The index of the last header field equal to field, the first column when
\* there is none.
FieldIndex(header, field) ==
  LET M == {i \in DOMAIN header : header[i] = field}
  IN IF M = {} THEN 1 ELSE CHOOSE i \in M : \A j \in M : j <= i

\* The AddMeta calls for the columns of a record that are none of the three
\* key columns.
RECURSIVE LoadCSVMeta(_, _, _, _, _, _, _)
LoadCSVMeta(s, run, header, record, location, keys, idx) ==
  IF idx > Len(record) THEN run
  ELSE IF idx \in keys
    THEN LoadCSVMeta(s, run, header, record, location, keys, idx + 1)
  ELSE LET r == AddMetaResult(run.v, location, header[idx], record[idx])
       IN IF r.err # "nil" THEN [run EXCEPT !.err = r.err]
          ELSE LoadCSVMeta(s, RunEncrypt(s, run, r.creds), header, record,
                           location, keys, idx + 1)

RECURSIVE LoadCSVLoop(_, _, _, _, _, _, _)

\* Variant: the error of a failed Add ends the import.
LoadCSVLoopAbort(s, run, header, records, li, ui, pi) ==
  IF records = <<>> THEN run
  ELSE LET record == Head(records) IN
    IF Len(record) # Len(header) THEN [run EXCEPT !.err = "ErrFieldCount"]
    ELSE LET location == record[li]
             r == AddResult(run.v, location, Credential(record[ui], record[pi]))
         IN IF r.err # "nil"
              THEN [run EXCEPT !.err = r.err]
              ELSE LET m == LoadCSVMeta(s, RunEncrypt(s, run, r.creds), header,
                                        record, location, {li, ui, pi}, 1)
                   IN IF m.err # "nil" THEN m
                      ELSE LoadCSVLoop(s, [m EXCEPT !.n = @ + 1], header,
                                       Tail(records), li, ui, pi)

LoadCSVLoop(s, run, header, records, li, ui, pi) ==
  IF records = <<>> THEN run
  ELSE LET record == Head(records) IN
    IF Len(record) # Len(header) THEN [run EXCEPT !.err = "ErrFieldCount"]
    ELSE LET location == record[li]
             r == AddResult(run.v, location, Credential(record[ui], record[pi]))
         IN IF r.err # "nil"
              THEN LoadCSVLoop(s, run, header, Tail(records), li, ui, pi)
              ELSE LET m == LoadCSVMeta(s, RunEncrypt(s, run, r.creds), header,
                                        record, location, {li, ui, pi}, 1)
                   IN IF m.err # "nil" THEN m
                      ELSE LoadCSVLoop(s, [m EXCEPT !.n = @ + 1], header,
                                       Tail(records), li, ui, pi)

\* c is the sequence of records that csv.NewReader(c) reads; the first one
\* is the header.
LoadCSVResult(s, v, c, locationField, usernameField, passwordField) ==
  IF c = <<>> THEN Run(v)
  ELSE LoadCSVLoop(s, Run(v), Head(c), Tail(c),
                   FieldIndex(Head(c), locationField),
                   FieldIndex(Head(c), usernameField),
                   FieldIndex(Head(c), passwordField))

LoadCSV(s, c, locationField, usernameField, passwordField) ==
  /\ HasVault(s)
  /\ RunDone(s, LoadCSVResult(s, h[s], c, locationField, usernameField,
                              passwordField))

\* CSV inputs: one row with a metadata column; two rows without.
CSVs ==
  { << <<"loc", "user", "pass", "k">>, <<"ab", "u", "w", "m">> >>,
    << <<"loc", "user", "pass">>, <<"a", "u", "w">>, <<"ab", "u", "w">> >> }

Main == {"s1"}

\* The metadata key the calls of Main use.
MainMetaKeys == {"k"}

Next ==
  \E s \in Main :
    \/ UNCHANGED <<mvars, cvars>> /\ \E p \in Passphrases : New(s, p)
    \/ UNCHANGED <<mvars, cvars>> /\ \E n \in Names, p \in Passphrases : LockStatLocked(s, n, p)
    \/ UNCHANGED <<mvars, cvars>> /\ \E n \in Names, p \in Passphrases : LockStatFree(s, n, p)
    \/ UNCHANGED <<mvars, cvars>> /\ LockCreate(s)
    \/ UNCHANGED <<mvars, cvars>> /\ openVault(s)
    \/ UNCHANGED <<mvars, cvars>> /\ openVaultCompat(s)
    \/ UNCHANGED <<mvars, cvars>> /\ Close(s)
    \/ UNCHANGED <<mvars, cvars>> /\ \E n \in Names : SaveTempFile(s, n)
    \/ UNCHANGED <<mvars, cvars>> /\ \E n \in Names : SaveTempFileError(s, n)
    \/ UNCHANGED <<mvars, cvars>> /\ SaveEncode(s)
    \/ UNCHANGED <<mvars, cvars>> /\ SaveSync(s)
    \/ UNCHANGED <<mvars, cvars>> /\ SaveClose(s)
    \/ UNCHANGED <<mvars, cvars>> /\ SaveRename(s)
    \/ UNCHANGED <<mvars, cvars>> /\ SaveError(s)
    \/ UNCHANGED <<mvars, cvars>> /\ Crash(s)
    \/ UNCHANGED <<mvars, cvars>> /\ Restart(s)
    \/ UNCHANGED <<mvars, cvars>> /\ \E l \in Locs : Add(s, l, Credential("u", "x"))
    \/ UNCHANGED <<mvars, cvars>> /\ \E l \in Locs : Generate(s, l, "u", "x")
    \/ UNCHANGED <<mvars, cvars>> /\ \E l \in Locs : Edit(s, l, Credential("u", "y"))
    \/ UNCHANGED <<mvars, cvars>> /\ \E l \in Locs : Delete(s, l)
    \/ UNCHANGED <<mvars, cvars>> /\ \E l \in Locs, k \in MainMetaKeys : AddMeta(s, l, k, "m")
    \/ UNCHANGED <<mvars, cvars>> /\ \E l \in Locs, k \in MainMetaKeys : EditMeta(s, l, k, "n")
    \/ UNCHANGED <<mvars, cvars>> /\ \E l \in Locs, k \in MainMetaKeys : DeleteMeta(s, l, k)
    \/ UNCHANGED <<mvars, cvars>> /\ \E p \in Passphrases : ChangePassphrase(s, p)
    \/ UNCHANGED <<mvars, cvars>> /\ \E o \in OtherVaults : Merge(s, o)
    \/ UNCHANGED <<mvars, cvars>> /\ \E c \in CSVs : LoadCSV(s, c, "loc", "user", "pass")

Spec == Init /\ [][Next]_vars

\* Two processes on the lock and the vault file, every interleaving of their
\* file-system steps.
NextLock ==
  \E s \in Sessions :
    \/ UNCHANGED <<mvars, cvars>> /\ \E n \in Names, p \in Passphrases : LockStatLocked(s, n, p)
    \/ UNCHANGED <<mvars, cvars>> /\ \E n \in Names, p \in Passphrases : LockStatFree(s, n, p)
    \/ UNCHANGED <<mvars, cvars>> /\ LockCreate(s)
    \/ UNCHANGED <<mvars, cvars>> /\ openVault(s)
    \/ UNCHANGED <<mvars, cvars>> /\ openVaultCompat(s)
    \/ UNCHANGED <<mvars, cvars>> /\ Close(s)
    \/ UNCHANGED <<mvars, cvars>> /\ Crash(s)
    \/ UNCHANGED <<mvars, cvars>> /\ Restart(s)

SpecLock == Init /\ [][NextLock]_vars

\* The steps of SpecLock, with the death of a process that had a vault open
\* noted in res together with the path it held the lock of.
CrashOpen(s) ==
  /\ Crash(s)
  /\ res' = IF h[s].st = "open" /\ h[s].lock # NoLock
              THEN [NoRes EXCEPT !.op = "Crash", !.loc = h[s].lock]
              ELSE res
  /\ UNCHANGED <<ref, cvars>>

NextStale ==
  \E s \in Sessions :
    \/ UNCHANGED <<mvars, cvars>> /\ \E n \in Names, p \in Passphrases : LockStatLocked(s, n, p)
    \/ UNCHANGED <<mvars, cvars>> /\ \E n \in Names, p \in Passphrases : LockStatFree(s, n, p)
    \/ UNCHANGED <<mvars, cvars>> /\ LockCreate(s)
    \/ UNCHANGED <<mvars, cvars>> /\ openVault(s)
    \/ UNCHANGED <<mvars, cvars>> /\ openVaultCompat(s)
    \/ UNCHANGED <<mvars, cvars>> /\ Close(s)
    \/ UNCHANGED <<mvars, cvars>> /\ Restart(s)
    \/ CrashOpen(s)

SpecStale == Init /\ [][NextStale]_allvars

(***************************************************************************)
(* The in-memory calls of one handle with their results observed: every    *)
(* call, failed ones included, leaves its result in res, and the reference *)
(* map ref follows the calls that returned nil.                            *)
(***************************************************************************)
\* A credential with both metadata keys and one without metadata.
MetaCreds ==
  [l \in Locs |->
     IF l = "a"
       THEN [Credential("u", "x") EXCEPT !.metaNil = FALSE,
                                         !.meta = [k \in MetaKeys |-> "m"]]
       ELSE Credential("u", "x")]

\* The handles the calls start from: the empty one New returns, and the ones
\* Open returns for a file that holds credentials.
MemStarts ==
  {<<EmptyCreds, FALSE>>, <<LegacyCreds, TRUE>>, <<MetaCreds, TRUE>>}

\* A handle that holds creds: one that New returned, or one that Open
\* returned for the vault path.
MemVault(creds, opened) ==
  [encrypt(NewVault("P", <<"old", 0, 3>>, <<"old", 0, 4>>, <<"old", 0, 5>>),
           creds, <<"old", 0, 7>>)
     EXCEPT !.lock = IF opened THEN "/d/v" ELSE NoLock,
            !.via = IF opened THEN "current" ELSE "new"]

InitMem ==
  \E start \in MemStarts :
   LET creds == start[1]
       opened == start[2]
   IN
    /\ h = [s \in Sessions |->
              IF s \in Main THEN MemVault(creds, opened) ELSE NoVault]
    /\ fs = [p \in Paths |-> SavedFile("P")]
    /\ lck = [p \in Paths |-> opened]
    /\ ret = [s \in Sessions |-> Ret("none", "nil")]
    /\ rnd = [s \in Sessions |-> 0]
    /\ seals = {<<MemVault(creds, opened).secret, MemVault(creds, opened).nonce>>}
    /\ reused = FALSE
    /\ savedView = [p \in Paths |-> [err |-> "none", creds |-> EmptyCreds]]
    /\ savedVia = [p \in Paths |-> "none"]
    /\ ref = creds
    /\ res = NoRes
    /\ AtRest

\* The reference map follows a call only when the call returned nil.
Observe(r, err, newref) ==
  /\ res' = [r EXCEPT !.err = err]
  /\ ref' = IF err = "nil" THEN newref ELSE ref
  /\ UNCHANGED cvars

MemAdd(s, location, credential) ==
  /\ Add(s, location, credential)
  /\ Observe([NoRes EXCEPT !.op = "Add", !.loc = location, !.cred = credential],
             AddResult(h[s], location, credential).err,
             [ref EXCEPT ![location] = credential])

MemGenerate(s, location, username, phrase) ==
  /\ Generate(s, location, username, phrase)
  /\ Observe([NoRes EXCEPT !.op = "Generate", !.loc = location,
                           !.cred = Credential(username, phrase)],
             AddResult(h[s], location, Credential(username, phrase)).err,
             [ref EXCEPT ![location] = Credential(username, phrase)])

MemEdit(s, location, credential) ==
  /\ Edit(s, location, credential)
  /\ Observe([NoRes EXCEPT !.op = "Edit", !.loc = location, !.cred = credential],
             EditResult(h[s], location, credential).err,
             [ref EXCEPT ![location].Username = credential.Username,
                         ![location].Password = credential.Password])

MemDelete(s, location) ==
  /\ Delete(s, location)
  /\ Observe([NoRes EXCEPT !.op = "Delete", !.loc = location],
             DeleteResult(h[s], location).err,
             [ref EXCEPT ![location] = NoCred])

MemAddMeta(s, location, name, value) ==
  /\ AddMeta(s, location, name, value)
  /\ Observe([NoRes EXCEPT !.op = "AddMeta", !.loc = location, !.name = name,
                           !.value = value],
             AddMetaResult(h[s], location, name, value).err,
             [ref EXCEPT ![location].metaNil = FALSE,
                         ![location].meta[name] = value])

MemEditMeta(s, location, name, newvalue) ==
  /\ EditMeta(s, location, name, newvalue)
  /\ Observe([NoRes EXCEPT !.op = "EditMeta", !.loc = location, !.name = name,
                           !.value = newvalue],
             EditMetaResult(h[s], location, name, newvalue).err,
             [ref EXCEPT ![location].meta[name] = newvalue])

MemDeleteMeta(s, location, metaname) ==
  /\ DeleteMeta(s, location, metaname)
  /\ Observe([NoRes EXCEPT !.op = "DeleteMeta", !.loc = location,
                           !.name = metaname],
             DeleteMetaResult(h[s], location, metaname).err,
             [ref EXCEPT ![location].meta[metaname] = NoVal])

MemGet(s, location) ==
  /\ HasVault(s)
  /\ LET r == Get(h[s], location)
     IN Observe([NoRes EXCEPT !.op = "Get", !.loc = location, !.cred = r.cred],
                r.err, ref)
  /\ UNCHANGED vars

MemLocations(s) ==
  /\ HasVault(s)
  /\ \E order \in RangeOrders(Keys(decrypt(h[s]).creds)) :
       LET r == LocationsIn(h[s], order)
       IN Observe([NoRes EXCEPT !.op = "Locations", !.locations = r.locations],
                  r.err, ref)
  /\ UNCHANGED vars

MemFind(s, searchtext) ==
  /\ HasVault(s)
  /\ \E r \in Find(h[s], searchtext) :
       Observe([NoRes EXCEPT !.op = "Find", !.text = searchtext, !.loc = r.loc,
                             !.cred = r.cred],
               r.err, ref)
  /\ UNCHANGED vars

MemFindMeta(s, location, searchtext) ==
  /\ HasVault(s)
  /\ \E r \in FindMeta(h[s], location, searchtext) :
       Observe([NoRes EXCEPT !.op = "FindMeta", !.loc = location,
                             !.text = searchtext, !.name = r.name,
                             !.value = r.value],
               r.err, ref)
  /\ UNCHANGED vars

MemClose(s) ==
  /\ Close(s)
  /\ res' = [NoRes EXCEPT !.op = "Close", !.err = ret'[s].err]
  /\ UNCHANGED <<ref, cvars>>

\* A credential that carries a Meta map of its own.
CredWithMeta(u, p, name, value) ==
  [Credential(u, p) EXCEPT !.metaNil = FALSE, !.meta[name] = value]

NextMem ==
  \E s \in Main :
    \/ \E l \in Locs : MemAdd(s, l, Credential("u", "x"))
    \/ \E l \in Locs : MemGenerate(s, l, "u", "g")
    \/ \E l \in Locs : MemEdit(s, l, CredWithMeta("v", "y", "k", "z"))
    \/ \E l \in Locs : MemDelete(s, l)
    \/ \E l \in Locs, k \in MetaKeys : MemAddMeta(s, l, k, "m")
    \/ \E l \in Locs, k \in MetaKeys : MemEditMeta(s, l, k, "n")
    \/ \E l \in Locs, k \in MetaKeys : MemDeleteMeta(s, l, k)
    \/ \E l \in Locs : MemGet(s, l)
    \/ MemLocations(s)
    \/ \E t \in SearchTexts : MemFind(s, t)
    \/ \E l \in Locs, t \in SearchTexts : MemFindMeta(s, l, t)
    \/ MemClose(s)

SpecMem == InitMem /\ [][NextMem]_allvars

(***************************************************************************)
(* Merge and LoadCSV on one handle with their results observed.  The vault *)
(* that is merged in is the handle of the second session.                  *)
(***************************************************************************)
\* CSV inputs: a record that repeats a location between two new ones, a
\* header that repeats a column name, and a later record with a field short.
BulkCSVs ==
  CSVs \cup
  { << <<"loc", "user", "pass", "k">>, <<"a", "u", "w", "m">>,
       <<"a", "v", "y", "z">>, <<"ab", "u", "w", "n">> >>,
    << <<"loc", "user", "pass", "k", "k">>, <<"ab", "u", "w", "m", "n">> >>,
    << <<"loc", "user", "pass">>, <<"a", "u", "w">>, <<"ab", "u">> >> }

InitBulk ==
  \E start \in MemStarts, other \in OtherVaults :
    /\ h = [s \in Sessions |->
              IF s \in Main THEN MemVault(start[1], start[2]) ELSE other]
    /\ fs = [p \in Paths |-> SavedFile("P")]
    /\ lck = [p \in Paths |-> start[2]]
    /\ ret = [s \in Sessions |-> Ret("none", "nil")]
    /\ rnd = [s \in Sessions |-> 0]
    /\ seals = {<<MemVault(start[1], start[2]).secret,
                  MemVault(start[1], start[2]).nonce>>,
                <<other.secret, other.nonce>>}
    /\ reused = FALSE
    /\ savedView = [p \in Paths |-> [err |-> "none", creds |-> EmptyCreds]]
    /\ savedVia = [p \in Paths |-> "none"]
    /\ ref = start[1]
    /\ res = NoRes
    /\ AtRest

BulkMerge(s, o) ==
  /\ Merge(s, h[o])
  /\ LET run == MergeResult(s, h[s], h[o])
     IN res' = [NoRes EXCEPT !.op = "Merge", !.err = run.err, !.loc = run.loc,
                             !.input = o]
  /\ UNCHANGED <<ref, cvars>>

BulkLoadCSV(s, c) ==
  /\ LoadCSV(s, c, "loc", "user", "pass")
  /\ LET run == LoadCSVResult(s, h[s], c, "loc", "user", "pass")
     IN res' = [NoRes EXCEPT !.op = "LoadCSV", !.err = run.err, !.n = run.n,
                             !.input = c]
  /\ UNCHANGED <<ref, cvars>>

NextBulk ==
  \E s \in Main :
    \/ \E o \in Sessions : BulkMerge(s, o)
    \/ \E c \in BulkCSVs : BulkLoadCSV(s, c)
    \/ \E l \in Locs : MemAdd(s, l, Credential("u", "x"))
    \/ \E l \in Locs : MemDelete(s, l)
    \/ MemClose(s)

SpecBulk == InitBulk /\ [][NextBulk]_allvars

(***************************************************************************)
(* The passphrase generator alone: calls with every charset and length of  *)
(* the bounds.                                                             *)
(***************************************************************************)
InitGen == Init /\ fs = [p \in Paths |-> NoFile]

NextGen ==
  \/ UNCHANGED <<vars, mvars, rp, clip, g>> /\ \E charset \in Charsets, length \in Lengths :
                                        GeneratePassphrase(charset, length)
  \/ UNCHANGED <<vars, mvars, rp, clip, g>> /\ GenerateChar
  \/ UNCHANGED <<vars, mvars, rp, clip, g>> /\ GenerateReturn

SpecGen == InitGen /\ [][NextGen]_allvars

(***************************************************************************)
(* The interactive session: main, setupRepl, REPL.Loop, REPL.eval and      *)
(* REPL.Stop.                                                              *)
(*                                                                         *)
(* Loop runs in the goroutine of main.  Every iteration starts a reader    *)
(* and a new time.After(r.timeout) and waits in select for the stop        *)
(* channel, the timer or the reader; select picks any of the cases that    *)
(* are ready.  Time passes only while the session waits, and a timer that  *)
(* is due fires before more time passes.                                   *)
(***************************************************************************)
vaultPath == "/d/v"

\* The next iteration of the for loop: a new reader and a new timer.
Iterate(r) == [r EXCEPT !.pc = "select", !.timer = timeout]

\* Variant: Stop closes the channel and calls no OnStop function.
StopCloseOnly(r, cause) ==
  IF r.closed
    THEN [r EXCEPT !.pc = "panic"]
    ELSE Iterate([r EXCEPT !.closed = TRUE, !.cause = cause])

\* r.Stop(): close(r.stopChan), which panics on a closed channel, then the
\* OnStop function.
Stop(r, cause) ==
  IF r.closed
    THEN [r EXCEPT !.pc = "panic"]
    ELSE [r EXCEPT !.pc = "stopfunc", !.closed = TRUE, !.cause = cause]

\* setupRepl: repl.New stores the time, the commands and OnStop are set.
setupRepl ==
  /\ rp.pc = "main"
  /\ rp' = [rp EXCEPT !.pc = "created", !.idle = 0]
  /\ UNCHANGED <<vars, mvars, pw, clip, g>>

\* r.Loop() up to the first select.
Loop ==
  /\ rp.pc = "created"
  /\ rp' = Iterate(rp)
  /\ UNCHANGED <<vars, mvars, pw, clip, g>>

\* One tick of the clock while the session waits.
Tick ==
  /\ \/ rp.pc = "created"
     \/ rp.pc = "select" /\ rp.timer > 0 /\ ~rp.closed
  /\ rp' = [rp EXCEPT !.idle = IF @ > timeout THEN @ ELSE @ + 1,
                      !.timer = IF rp.pc = "select" THEN @ - 1 ELSE @]
  /\ UNCHANGED <<vars, mvars, pw, clip, g>>

\* case input := <-lineresult, a line that calls no command of the vault:
\* the empty line or a name that is no command.
evalLine(line) ==
  /\ rp.pc = "select"
  /\ line \in {"", "nosuch"}
  /\ rp' = Iterate([rp EXCEPT !.idle = 0])
  /\ UNCHANGED <<vars, mvars, pw, clip, g>>

\* The line add <location> <username> <password>.
evalAdd(s, location) ==
  /\ rp.pc = "select"
  /\ Add(s, location, Credential("u", "x"))
  /\ rp' = Iterate([rp EXCEPT !.idle = 0])
  /\ UNCHANGED <<mvars, pw, clip, g>>

\* The line exit: its action is r.Stop().
evalExit ==
  /\ rp.pc = "select"
  /\ rp' = Stop([rp EXCEPT !.idle = 0], "exit")
  /\ UNCHANGED <<vars, mvars, pw, clip, g>>

\* The reader returns readline.ErrInterrupt (ctrl-c).
ReadInterrupt ==
  /\ rp.pc = "select"
  /\ rp' = Stop(rp, "interrupt")
  /\ UNCHANGED <<vars, mvars, pw, clip, g>>

\* The reader returns another error, such as io.EOF: break leaves the
\* select and the loop goes on.
ReadError ==
  /\ rp.pc = "select"
  /\ rp' = Iterate([rp EXCEPT !.readerr = TRUE])
  /\ UNCHANGED <<vars, mvars, pw, clip, g>>

\* case <-time.After(r.timeout).
Timeout ==
  /\ rp.pc = "select"
  /\ rp.timer = 0
  /\ rp' = Stop(rp, "timeout")
  /\ UNCHANGED <<vars, mvars, pw, clip, g>>

\* The OnStop function of setupRepl: secureclip.Clear() and
\* v.Save(vaultPath), whose error is dropped; then Stop returns to Loop.
OnStop(s) ==
  /\ rp.pc = "stopfunc"
  /\ \/ SaveTempFile(s, vaultPath)
     \/ SaveTempFileError(s, vaultPath)
     \/ SaveEncode(s)
     \/ SaveSync(s)
     \/ SaveClose(s)
     \/ SaveRename(s)
     \/ SaveError(s)
  /\ rp' = IF h'[s].pc = "idle"
             THEN Iterate([rp EXCEPT !.stops = @ + 1, !.saved = ret'[s].err])
             ELSE rp
  /\ UNCHANGED <<mvars, pw, clip, g>>

\* case <-r.stopChan: Loop returns nil.
LoopReturn ==
  /\ rp.pc = "select"
  /\ rp.closed
  /\ rp' = [rp EXCEPT !.pc = "returned"]
  /\ UNCHANGED <<vars, mvars, pw, clip, g>>

\* main returns, or unwinds after a panic: the deferred v.Close() of the
\* Open path runs.
mainReturn(s) ==
  /\ rp.pc \in {"returned", "panic"}
  /\ rp' = [rp EXCEPT !.pc = IF rp.pc = "returned" THEN "exit" ELSE "crashed"]
  /\ IF h[s].lock # NoLock THEN Close(s) ELSE UNCHANGED vars
  /\ UNCHANGED <<mvars, pw, clip, g>>

Lines == {"", "nosuch"}

NextRepl ==
  \E s \in Main :
    \/ setupRepl
    \/ Loop
    \/ Tick
    \/ \E line \in Lines : evalLine(line)
    \/ \E l \in Locs : evalAdd(s, l)
    \/ evalExit
    \/ ReadInterrupt
    \/ ReadError
    \/ Timeout
    \/ OnStop(s)
    \/ LoopReturn
    \/ mainReturn(s)

SpecRepl == InitMem /\ [][NextRepl]_allvars

\* What the runtime guarantees: the goroutine of main goes on, time passes
\* while it waits, a select takes a case that stays ready, and, as it picks
\* at random among the ready cases, the timer case when that is ready again
\* and again; the calls of the file system made by Save return.  What the
\* reader returns, and when, is up to the user.
FairRepl ==
  /\ WF_allvars(setupRepl)
  /\ WF_allvars(Loop)
  /\ WF_allvars(Tick)
  /\ SF_allvars(Timeout)
  /\ WF_allvars(LoopReturn)
  /\ \A s \in Main : WF_allvars(OnStop(s))
  /\ \A s \in Main : WF_allvars(mainReturn(s))

\* The session on an input that ends: once the reader has returned io.EOF
\* every later read returns it again.
NextEOF ==
  \E s \in Main :
    \/ setupRepl
    \/ Loop
    \/ Tick
    \/ ~rp.readerr /\ \E line \in Lines : evalLine(line)
    \/ ~rp.readerr /\ \E l \in Locs : evalAdd(s, l)
    \/ ~rp.readerr /\ evalExit
    \/ ~rp.readerr /\ ReadInterrupt
    \/ ReadError
    \/ Timeout
    \/ OnStop(s)
    \/ LoopReturn
    \/ mainReturn(s)

SpecEOF == InitMem /\ [][NextEOF]_allvars

SpecEOFLive == SpecEOF /\ FairRepl

(***************************************************************************)
(* Package secureclip: Clip, its clear timers and Clear.                   *)
(*                                                                         *)
(* Clip runs in the goroutine of the REPL, one call at a time; every call  *)
(* starts a goroutine that sleeps, reads lastClip under the mutex,         *)
(* compares and clears.  The steps of the call and of the goroutines       *)
(* interleave.  time.Sleep(clipTimeout) starts after setLastClip has read  *)
(* the clock and lasts at least clipTimeout, so the goroutine reads the    *)
(* clock later than lastClip + clipTimeout: its wake-up falls in the tick  *)
(* after the clipTimeout ticks of the sleep.                               *)
(***************************************************************************)
Passwords == {"p1", "p2"}

FreeTimers == {t \in Timers : clip.timers[t].pc = "none"}

NewTimer == CHOOSE t \in FreeTimers : \A u \in FreeTimers : t <= u

\* Variant: the comparison the other way round.
ExpiredInverted(since) == since < clipTimeout

\* time.Since(getLastClip()) > clipTimeout
Expired(since) == since > clipTimeout

\* Clip up to clipboard.WriteAll(passphrase), which succeeds.
ClipWrite(passphrase) ==
  /\ clip.call = "idle"
  /\ FreeTimers # {}
  /\ clip' = [clip EXCEPT !.clipboard = passphrase, !.call = "written",
                          !.sinceCall = 0, !.gen = 1 - @]

\* setLastClip(time.Now()), go func() and return nil.
ClipSet ==
  /\ clip.call = "written"
  /\ clip' = [clip EXCEPT !.since = 0, !.call = "idle",
                !.timers[NewTimer] = [pc |-> "sleep", left |-> clipTimeout + 1]]

\* The goroutine wakes up and evaluates the condition.
TimerCheck(t) ==
  /\ clip.timers[t].pc = "sleep"
  /\ clip.timers[t].left = 0
  /\ clip' = [clip EXCEPT !.timers[t].pc =
                IF Expired(clip.since) THEN "clear" ELSE "none"]

\* clipboard.WriteAll("") of the goroutine.
TimerClear(t) ==
  /\ clip.timers[t].pc = "clear"
  /\ clip' = [clip EXCEPT !.clipboard = "", !.timers[t] = NoTimer]

\* secureclip.Clear(), the call of the OnStop function.
Clear ==
  /\ clip.call = "idle"
  /\ clip.clipboard # ""
  /\ clip' = [clip EXCEPT !.clipboard = ""]

Less1(n) == IF n > 0 THEN n - 1 ELSE 0

\* One tick of the clock.
ClipTick ==
  /\ clip' = [clip EXCEPT
       !.since = IF @ > clipTimeout THEN @ ELSE @ + 1,
       !.sinceCall = IF @ >= clipTimeout THEN @ ELSE @ + 1,
       !.timers = [t \in Timers |-> [@[t] EXCEPT !.left = Less1(@)]]]
  /\ clip' # clip

NextClip ==
  \/ UNCHANGED <<vars, mvars, pw, rp, g>> /\ \E p \in Passwords : ClipWrite(p)
  \/ UNCHANGED <<vars, mvars, pw, rp, g>> /\ ClipSet
  \/ UNCHANGED <<vars, mvars, pw, rp, g>> /\ \E t \in Timers : TimerCheck(t)
  \/ UNCHANGED <<vars, mvars, pw, rp, g>> /\ \E t \in Timers : TimerClear(t)
  \/ UNCHANGED <<vars, mvars, pw, rp, g>> /\ Clear
  \/ UNCHANGED <<vars, mvars, pw, rp, g>> /\ ClipTick

SpecClip == InitGen /\ [][NextClip]_allvars

\* The scheduler runs every goroutine that can run, the Clip call returns,
\* and time passes.
FairClip ==
  /\ WF_allvars(UNCHANGED <<vars, mvars, pw, rp, g>> /\ ClipSet)
  /\ WF_allvars(UNCHANGED <<vars, mvars, pw, rp, g>> /\ ClipTick)
  /\ \A t \in Timers :
       /\ WF_allvars(UNCHANGED <<vars, mvars, pw, rp, g>> /\ TimerCheck(t))
       /\ WF_allvars(UNCHANGED <<vars, mvars, pw, rp, g>> /\ TimerClear(t))

SpecClipLive == SpecClip /\ FairClip

(***************************************************************************)
(* Calls of Add and Save by two goroutines on one handle.                  *)
(*                                                                         *)
(* Vault has no mutex: the reads and writes of v.nonce and v.data by       *)
(* decrypt, encrypt and Save are the steps that interleave.  Every         *)
(* goroutine makes one call.  The interleavings of whole statements are a  *)
(* part of what a data race can produce.                                   *)
(***************************************************************************)
\* v.decrypt() of Add, the test of the location and the change of the map.
GoAdd(s, t, location) ==
  /\ g[t].pc = "idle"
  /\ h[s].st = "open"
  /\ LET r == AddResult(h[s], location, Credential("u", "x"))
     IN g' = [g EXCEPT ![t] =
                [NoGo EXCEPT !.op = "Add", !.loc = location, !.creds = r.creds,
                             !.err = r.err,
                             !.pc = IF r.err = "nil" THEN "encrypt" ELSE "done"]]
  /\ UNCHANGED <<vars, mvars, pw, rp, clip>>

\* encrypt: io.ReadFull(rand.Reader, v.nonce[:]).
GoEncryptNonce(s, t) ==
  /\ g[t].pc = "encrypt"
  /\ CanDraw(s)
  /\ h' = [h EXCEPT ![s].nonce = Draw(s, 1)]
  /\ rnd' = [rnd EXCEPT ![s] = @ + 1]
  /\ g' = [g EXCEPT ![t].pc = "seal"]
  /\ UNCHANGED <<fs, lck, ret, seals, reused, savedView, savedVia, mvars, pw,
                 rp, clip>>

\* encrypt: v.data = aead.Seal(nil, v.nonce[:], buf.Bytes(), nil), with the
\* nonce that the handle holds now.
GoEncryptSeal(s, t) ==
  /\ g[t].pc = "seal"
  /\ LET v == [h[s] EXCEPT !.data = Seal("xchacha20poly1305", h[s].secret,
                                         h[s].nonce, GobEncode(g[t].creds))]
     IN /\ h' = [h EXCEPT ![s] = v]
        /\ Sealed(v)
  /\ g' = [g EXCEPT ![t].pc = "done"]
  /\ UNCHANGED <<fs, lck, ret, rnd, savedView, savedVia, mvars, pw, rp, clip>>

\* Save up to the vaultFile literal, which copies the fields of the handle.
GoSave(s, t) ==
  /\ g[t].pc = "idle"
  /\ h[s].st = "open"
  /\ g' = [g EXCEPT ![t] = [NoGo EXCEPT !.op = "Save", !.pc = "write",
                                        !.vf = vaultFileOf(h[s])]]
  /\ UNCHANGED <<vars, mvars, pw, rp, clip>>

\* Save from the encoding of the vaultFile to os.Rename.
GoSaveWrite(s, t) ==
  /\ g[t].pc = "write"
  /\ fs' = [fs EXCEPT ![vaultPath] = jsonEncode(g[t].vf)]
  /\ g' = [g EXCEPT ![t].pc = "done"]
  /\ UNCHANGED <<h, lck, ret, rnd, seals, reused, savedView, savedVia, mvars,
                 pw, rp, clip>>

NextRace ==
  \E s \in Main, t \in Goroutines :
    \/ \E l \in Locs : GoAdd(s, t, l)
    \/ GoEncryptNonce(s, t)
    \/ GoEncryptSeal(s, t)
    \/ GoSave(s, t)
    \/ GoSaveWrite(s, t)

SpecRace == InitMem /\ [][NextRace]_allvars

(***************************************************************************)
(* Two processes on one vault path: one opens the vault, the other starts  *)
(* with -new, which is New followed by Save(vaultPath).                    *)
(***************************************************************************)
InitWriters == Init /\ fs = [p \in Paths |-> SavedFile("P")]

NextWriters ==
  \/ \E s \in Main :
       \/ UNCHANGED <<mvars, cvars>> /\ LockStatLocked(s, vaultPath, "P")
       \/ UNCHANGED <<mvars, cvars>> /\ LockStatFree(s, vaultPath, "P")
       \/ UNCHANGED <<mvars, cvars>> /\ LockCreate(s)
       \/ UNCHANGED <<mvars, cvars>> /\ openVault(s)
       \/ UNCHANGED <<mvars, cvars>> /\ Add(s, "ab", Credential("u", "y"))
       \/ UNCHANGED <<mvars, cvars>> /\ Close(s)
  \/ \E s \in Sessions \ Main :
       \/ UNCHANGED <<mvars, cvars>> /\ New(s, "Q")
  \/ \E s \in Sessions :
       \/ UNCHANGED <<mvars, cvars>> /\ SaveTempFile(s, vaultPath)
       \/ UNCHANGED <<mvars, cvars>> /\ SaveEncode(s)
       \/ UNCHANGED <<mvars, cvars>> /\ SaveSync(s)
       \/ UNCHANGED <<mvars, cvars>> /\ SaveClose(s)
       \/ UNCHANGED <<mvars, cvars>> /\ SaveRename(s)

SpecWriters == InitWriters /\ [][NextWriters]_allvars

(***************************************************************************)
(* The read-only calls and Save on one handle, between calls that change   *)
(* it.                                                                     *)
(***************************************************************************)
NextFrame ==
  \/ \E s \in Main, l \in Locs : MemAdd(s, l, Credential("u", "x"))
  \/ \E s \in Main, l \in Locs : MemGet(s, l)
  \/ \E s \in Main : MemLocations(s)
  \/ \E s \in Main, t \in SearchTexts : MemFind(s, t)
  \/ \E s \in Main, l \in Locs, t \in SearchTexts : MemFindMeta(s, l, t)
  \/ \E s \in Main : MemClose(s)
  \/ \E s \in Main : UNCHANGED <<mvars, cvars>> /\ SaveTempFile(s, vaultPath)
  \/ \E s \in Main : UNCHANGED <<mvars, cvars>> /\ SaveEncode(s)
  \/ \E s \in Main : UNCHANGED <<mvars, cvars>> /\ SaveSync(s)
  \/ \E s \in Main : UNCHANGED <<mvars, cvars>> /\ SaveClose(s)
  \/ \E s \in Main : UNCHANGED <<mvars, cvars>> /\ SaveRename(s)
  \/ \E s \in Main : UNCHANGED <<mvars, cvars>> /\ SaveError(s)

SpecFrame == InitMem /\ [][NextFrame]_allvars

(***************************************************************************)
(* Properties.                                                             *)
(***************************************************************************)
\* Session s has returned from filelock.Lock on path p and has not unlocked.
Holds(s, p) ==
  \/ h[s].pc \in {"openVault", "openVaultCompat"} /\ h[s].path = p
  \/ h[s].st = "open" /\ h[s].lock = p

\* Session s enters Open on path p in this step and finds no lock file.
EntersOpen(s, p) ==
  h[s].pc = "idle" /\ h'[s].pc = "Lock.Create" /\ h'[s].path = p

\* Session s leaves Open in this step with the result err.
LeavesOpen(s, err) ==
  /\ h[s].pc \in {"openVault", "openVaultCompat"}
  /\ h'[s].pc = "idle"
  /\ ret'[s] = Ret("Open", err)

\* C1: while a handle obtained by Open(p) has not been closed, another
\* Open(p) returns ErrLocked at once and yields no handle: no other session
\* gets past the lock check on p.
C1_LockedWhileOpen ==
  [][\A a \in Sessions : \A b \in Sessions \ {a} :
       (h[a].st = "open" /\ h[a].lock # NoLock) => ~EntersOpen(b, h[a].lock)]_vars

\* C2: under every interleaving at most one session holds the lock on a path.
C2_MutualExclusion ==
  \A p \in Paths : Cardinality({s \in Sessions : Holds(s, p)}) <= 1

\* C6: every Open that fails after it took the lock has removed the lock file
\* when control leaves Open.
C6_FailedOpenUnlocks ==
  [][\A s \in Sessions :
       (\E err \in {"ErrNotExist", "ErrCouldNotDecrypt", "panic"} :
          LeavesOpen(s, err)) => ~lck'[LockPath(h[s].path)]]_vars

\* A step of session s other than the end of its process.
StepOf(s) == h'[s] # h[s] /\ ~(h'[s].st = "crashed" /\ ret'[s] = Ret("exit", "killed"))

\* The passphrase the sealed data of a vault file was saved under.
PassOf(f) == f.Data.key.pass

\* The file was written by Save.
SavedVault(f) == f.kind = "json" /\ f.Data.alg = "xchacha20poly1305"

\* The file was written by the legacy program.
LegacyVault(f) == f.kind = "raw" /\ f.Data.alg = "secretbox"

SameCredential(c, d) ==
  /\ c.present = d.present
  /\ c.Username = d.Username
  /\ c.Password = d.Password
  /\ c.meta = d.meta

\* C3: Save is atomic for the target file: only the rename changes it, to the
\* complete new contents; a Save that stops earlier leaves it as it was and
\* returns the error.
C3_AtomicSave ==
  [][\A s \in Sessions :
       LET inSave == h[s].pc \in SavePcs /\ h'[s] # h[s]
           begins == /\ h[s].pc = "idle"
                     /\ \/ h'[s].pc = "Save.Encode"
                        \/ ret'[s] = Ret("Save", "IOError") /\ ret'[s] # ret[s]
           renamed == /\ h[s].pc = "Save.Rename"
                      /\ h'[s].pc = "idle" /\ h'[s].st # "crashed"
                      /\ ret'[s] = Ret("Save", "nil")
       IN (inSave \/ begins) =>
            IF renamed
              THEN fs' = [fs EXCEPT ![h[s].path] = jsonEncode(vaultFileOf(h[s]))]
              ELSE /\ fs' = fs
                   /\ (inSave /\ h'[s].pc = "idle" /\ h'[s].st # "crashed")
                        => ret'[s] = Ret("Save", "IOError")]_vars

\* A Save has failed and the file still holds the previous vault, which
\* differs from what the handle holds.
C3_Witness ==
  \E s \in Sessions, p \in Paths :
    /\ ret[s] = Ret("Save", "IOError")
    /\ h[s].st = "open"
    /\ savedView[p].err = "nil"
    /\ fs[p].kind = "json"
    /\ decrypt(h[s]) # savedView[p]

\* C4: Open of a vault file, in the current or the legacy layout, with a
\* passphrase other than the one it was saved under returns
\* ErrCouldNotDecrypt and no handle, and does not crash.
C4_WrongPassphrase ==
  [][\A s \in Sessions :
       (/\ h[s].pc \in {"openVault", "openVaultCompat"}
        /\ StepOf(s)
        /\ SavedVault(fs[h[s].path]) \/ LegacyVault(fs[h[s].path])
        /\ PassOf(fs[h[s].path]) # h[s].pass)
       => IF h[s].pc = "openVault"
            THEN h'[s] = [h[s] EXCEPT !.pc = "openVaultCompat"]
            ELSE /\ h'[s] = NoVault
                 /\ ret'[s] = Ret("Open", "ErrCouldNotDecrypt")]_vars

C4_Witness ==
  \E s \in Sessions, p \in Paths :
    /\ ret[s] = Ret("Open", "ErrCouldNotDecrypt")
    /\ h[s].st = "none"
    /\ SavedVault(fs[p])

\* C5: a vault saved by Save and opened with the passphrase it was saved
\* under gives a handle with the same Locations and, for each location, the
\* same username, password and metadata as the saving handle held.
C5_RoundTrip ==
  [][\A s \in Sessions :
       (/\ h[s].pc = "openVault"
        /\ StepOf(s)
        /\ savedView[h[s].path].err = "nil"
        /\ PassOf(fs[h[s].path]) = h[s].pass)
       => /\ h'[s].st = "open"
          /\ Locations(h'[s]) =
               [err |-> "nil",
                locations |-> sortStrings(
                  RangeOrder(Keys(savedView[h[s].path].creds)))]
          /\ \A l \in Locs :
               savedView[h[s].path].creds[l].present =>
                 /\ Get(h'[s], l).err = "nil"
                 /\ SameCredential(Get(h'[s], l).cred,
                                   savedView[h[s].path].creds[l])]_vars

\* A handle opened from a file that a New vault saved, holding what was saved.
C5_Witness ==
  \E s \in Sessions, p \in Paths :
    /\ h[s].st = "open" /\ h[s].via = "current" /\ h[s].lock = p
    /\ savedVia[p] = "new"
    /\ savedView[p].err = "nil"
    /\ decrypt(h[s]) = savedView[p]
    /\ \E l \in Locs : savedView[p].creds[l].present

\* C7: every re-seal draws a new nonce before sealing, no (key, nonce) pair
\* seals twice, and the nonce held after Open differs from the file's.
C7_NonceFresh ==
  /\ [](~reused)
  /\ [][\A s \in Sessions :
          /\ (h'[s].data # h[s].data /\ h'[s].st = "open")
               => /\ h'[s].nonce = Draw(s, 1) \/ h'[s].nonce = Draw(s, 2)
                     \/ h'[s].nonce = Draw(s, 3)
                  /\ h'[s].data.nonce = h'[s].nonce
                  /\ h'[s].data.key = h'[s].secret
          /\ (h[s].pc \in {"openVault", "openVaultCompat"} /\ h'[s].st = "open")
               => h'[s].nonce # fs[h[s].path].Nonce]_vars

C7_Witness ==
  /\ Cardinality(seals) >= 3
  /\ \E s \in Sessions : h[s].st = "open" /\ h[s].via = "current"

\* C8: after every successful Open, through either layout, the salt is a
\* new one, different from the file's, and the key is derived from it.
C8_SaltRotated ==
  [][\A s \in Sessions :
       (h[s].pc \in {"openVault", "openVaultCompat"} /\ h'[s].st = "open")
       => /\ h'[s].salt # fs[h[s].path].Salt
          /\ h'[s].secret = argon2IDKey(h[s].pass, h'[s].salt, h'[s].argonTime,
                                        h'[s].argonMemory, h'[s].argonLanes)]_vars

\* C9: the Save of a handle opened through the legacy layout writes the
\* current layout, and that file opens through openVault with the same
\* passphrase to the same credential set.
C9_LazyMigration ==
  [][\A s \in Sessions :
       /\ (/\ h[s].pc = "Save.Rename" /\ h[s].via = "legacy" /\ h[s].st = "open"
           /\ h'[s].pc = "idle" /\ ret'[s] = Ret("Save", "nil"))
          => LET f == fs'[h[s].path]
                 pass == h[s].secret.pass
             IN /\ f = jsonEncode(vaultFileOf(h[s]))
                /\ openVaultOutcome(f, pass) = "ok"
                /\ decrypt(openVaultRead(f, pass)) = decrypt(h[s])
       /\ (/\ h[s].pc = "openVault"
           /\ StepOf(s)
           /\ savedVia[h[s].path] = "legacy"
           /\ savedView[h[s].path].err = "nil"
           /\ PassOf(fs[h[s].path]) = h[s].pass)
          => /\ h'[s].st = "open" /\ h'[s].via = "current"
             /\ decrypt(h'[s]) = savedView[h[s].path]]_vars

C9_Witness ==
  \E s \in Sessions, p \in Paths :
    /\ h[s].st = "open" /\ h[s].via = "current" /\ h[s].lock = p
    /\ savedVia[p] = "legacy"
    /\ fs[p].kind = "json"
    /\ decrypt(h[s]) = savedView[p]
    /\ decrypt(h[s]).err = "nil"

\* C10: only the rename of Save changes the vault file, so the file always
\* holds the credential set of the last Save.
C10_OnlySaveWrites ==
  /\ [](\A p \in Paths :
          savedView[p].err = "nil" =>
            fs[p].kind = "json" /\ GobDecode(fs[p].Data.plain) = savedView[p].creds)
  /\ [][\A p \in Paths :
          fs'[p] # fs[p] =>
            \E s \in Sessions :
              /\ h[s].pc = "Save.Rename" /\ h[s].path = p
              /\ ret'[s] = Ret("Save", "nil")]_vars

\* A handle opened from the file has been changed in memory; the file still
\* holds the last saved credential set.
C10_Witness ==
  \E s \in Sessions, p \in Paths :
    /\ h[s].st = "open" /\ h[s].lock = p
    /\ savedView[p].err = "nil"
    /\ decrypt(h[s]).err = "nil"
    /\ decrypt(h[s]).creds # savedView[p].creds

\* C12: ChangePassphrase(N) keeps the credentials and leaves the file alone;
\* the file that Save then writes opens with N to the credential set the
\* handle held and gives ErrCouldNotDecrypt with every other passphrase, the
\* old one included.
C12_ChangePassphrase ==
  [][\A s \in Sessions :
       /\ \A N \in Passphrases :
            (h'[s].salt # h[s].salt /\ ChangePassphrase(s, N)) =>
              /\ fs' = fs
              /\ decrypt(h'[s]) = decrypt(h[s])
              /\ h'[s].secret = argon2IDKey(N, h'[s].salt, h'[s].argonTime,
                                            h'[s].argonMemory, h'[s].argonLanes)
       /\ (h[s].via = "changed" /\ h[s].st = "open" /\ fs' # fs) =>
            /\ h[s].pc = "Save.Rename"
            /\ PassOf(fs'[h[s].path]) = h[s].secret.pass
            /\ savedView'[h[s].path] = decrypt(h[s])
       /\ (/\ h[s].pc \in {"openVault", "openVaultCompat"}
           /\ StepOf(s)
           /\ savedVia[h[s].path] = "changed"
           /\ savedView[h[s].path].err = "nil")
          => IF PassOf(fs[h[s].path]) = h[s].pass
               THEN /\ h'[s].st = "open"
                    /\ decrypt(h'[s]) = savedView[h[s].path]
               ELSE IF h[s].pc = "openVault"
                      THEN h'[s] = [h[s] EXCEPT !.pc = "openVaultCompat"]
                      ELSE /\ h'[s] = NoVault
                           /\ ret'[s] = Ret("Open", "ErrCouldNotDecrypt")]_vars

\* A handle opened, with the new passphrase, from the file saved after a
\* change of passphrase, holding the credentials that were saved.
C12_Witness ==
  \E s \in Sessions, p \in Paths :
    /\ h[s].st = "open" /\ h[s].via = "current" /\ h[s].lock = p
    /\ savedVia[p] = "changed"
    /\ PassOf(fs[p]) = h[s].secret.pass
    /\ decrypt(h[s]) = savedView[p]
    /\ \E l \in Locs : savedView[p].creds[l].present

\* C25: once a process that had a vault open has terminated without Close,
\* the lock file of that path stays and no later Open of the path gets past
\* the lock check.
C25_StaleLock ==
  /\ [](res.op = "Crash" => lck[LockPath(res.loc)])
  /\ [][res.op = "Crash" => \A b \in Sessions : ~EntersOpen(b, res.loc)]_allvars

(***************************************************************************)
(* Properties of the in-memory calls, stated over SpecMem.                 *)
(***************************************************************************)
\* The calls that go through decrypt.
DecryptingOps ==
  {"Add", "Generate", "Edit", "Delete", "AddMeta", "EditMeta", "DeleteMeta",
   "Get", "Locations", "Find", "FindMeta"}

C13_AddExisting ==
  [][\A s \in Main :
       (/\ res'.op \in {"Add", "Generate"}
        /\ decrypt(h[s]).err = "nil"
        /\ decrypt(h[s]).creds[res'.loc].present)
       => /\ res'.err = "ErrCredentialExists"
          /\ h'[s].data = h[s].data
          /\ h'[s].nonce = h[s].nonce
          /\ decrypt(h'[s]) = decrypt(h[s])]_allvars

\* Generate was refused for a location that holds another credential.
C13_Witness ==
  \E s \in Main :
    /\ res.op = "Generate"
    /\ res.err = "ErrCredentialExists"
    /\ decrypt(h[s]).err = "nil"
    /\ decrypt(h[s]).creds[res.loc].present
    /\ decrypt(h[s]).creds[res.loc] # res.cred


\* C14: Get, Edit, Delete, AddMeta, EditMeta, DeleteMeta and FindMeta for a
\* location that is not a key of the vault return ErrNoSuchCredential and
\* leave the credential set, the ciphertext and the nonce unchanged.
C14_NoSuchCredential ==
  [][\A s \in Main :
       (/\ res'.op \in {"Get", "Edit", "Delete", "AddMeta", "EditMeta",
                        "DeleteMeta", "FindMeta"}
        /\ decrypt(h[s]).err = "nil"
        /\ ~decrypt(h[s]).creds[res'.loc].present)
       => /\ res'.err = "ErrNoSuchCredential"
          /\ h'[s].data = h[s].data
          /\ h'[s].nonce = h[s].nonce
          /\ decrypt(h'[s]) = decrypt(h[s])]_allvars

\* Delete was refused for a location that a vault with other credentials
\* does not hold.
C14_Witness ==
  \E s \in Main :
    /\ res.op = "Delete"
    /\ res.err = "ErrNoSuchCredential"
    /\ decrypt(h[s]).err = "nil"
    /\ ~decrypt(h[s]).creds[res.loc].present
    /\ \E l \in Locs : decrypt(h[s]).creds[l].present

\* C15: Edit of an existing location stores the username and password of the
\* new credential and keeps the metadata the location had; the Meta that the
\* new credential carries is not stored.
C15_EditKeepsMeta ==
  [][\A s \in Main :
       (/\ res'.op = "Edit"
        /\ decrypt(h[s]).err = "nil"
        /\ decrypt(h[s]).creds[res'.loc].present)
       => LET old == decrypt(h[s]).creds[res'.loc]
              new == decrypt(h'[s]).creds[res'.loc]
          IN /\ res'.err = "nil"
             /\ new.present
             /\ new.Username = res'.cred.Username
             /\ new.Password = res'.cred.Password
             /\ new.metaNil = old.metaNil
             /\ new.meta = old.meta]_allvars

\* An Edit that carried a tag stored the new password next to the old value
\* of that tag.
C15_Witness ==
  \E s \in Main :
    /\ res.op = "Edit" /\ res.err = "nil"
    /\ res.cred.meta["k"] = "z"
    /\ decrypt(h[s]).creds[res.loc].Password = res.cred.Password
    /\ decrypt(h[s]).creds[res.loc].meta["k"] = "m"

\* C16: AddMeta with a name the credential already has returns ErrMetaExists;
\* EditMeta and DeleteMeta with a name the credential does not have, a
\* credential without any metadata included, return ErrMetaDoesNotExist; the
\* metadata and the ciphertext stay unchanged.
C16_MetaErrors ==
  [][\A s \in Main :
       LET d == decrypt(h[s]) IN
       (/\ res'.op \in {"AddMeta", "EditMeta", "DeleteMeta"}
        /\ d.err = "nil"
        /\ d.creds[res'.loc].present
        /\ (res'.op = "AddMeta") = (d.creds[res'.loc].meta[res'.name] # NoVal))
       => /\ res'.err = IF res'.op = "AddMeta" THEN "ErrMetaExists"
                                               ELSE "ErrMetaDoesNotExist"
          /\ h'[s].data = h[s].data
          /\ h'[s].nonce = h[s].nonce
          /\ decrypt(h'[s]) = d]_allvars

\* AddMeta was refused for a name that holds another value.
C16_Witness ==
  \E s \in Main :
    /\ res.op = "AddMeta"
    /\ res.err = "ErrMetaExists"
    /\ decrypt(h[s]).err = "nil"
    /\ decrypt(h[s]).creds[res.loc].meta[res.name] \notin {NoVal, res.value}


\* C17: an open vault behaves as a map from location to credential.  Get and
\* Locations agree with the reference map ref, which follows only the calls
\* that returned nil, and a call that returned nil changed the location it
\* was given, and for the metadata calls the tag it was given, and nothing
\* else.
C17_MapRefinement ==
  [][\A s \in Main :
       h[s].st = "open" =>
         LET old == decrypt(h[s]).creds
             new == decrypt(h'[s]).creds
         IN
         /\ res'.op = "Get" =>
              IF ref[res'.loc].present
                THEN /\ res'.err = "nil"
                     /\ SameCredential(res'.cred, ref[res'.loc])
                ELSE res'.err = "ErrNoSuchCredential"
         /\ res'.op = "Locations" =>
              /\ res'.err = "nil"
              /\ {res'.locations[i] : i \in DOMAIN res'.locations} = Keys(ref)
              /\ Len(res'.locations) = Cardinality(Keys(ref))
         /\ res'.op # "Close" =>
              \A l \in Locs : SameCredential(new[l], ref'[l])
         /\ (res'.err # "nil" /\ res'.op # "Close") => ref' = ref /\ new = old
         /\ (res'.err = "nil" /\ res'.op # "Close") =>
              /\ \A l \in Locs \ {res'.loc} : new[l] = old[l]
              /\ res'.op \in {"AddMeta", "EditMeta", "DeleteMeta"} =>
                   /\ new[res'.loc].Username = old[res'.loc].Username
                   /\ new[res'.loc].Password = old[res'.loc].Password
                   /\ \A k \in MetaKeys \ {res'.name} :
                        new[res'.loc].meta[k] = old[res'.loc].meta[k]
              /\ res'.op \in {"Get", "Locations", "Find", "FindMeta"} =>
                   new = old]_allvars

\* One tag of a credential with two tags was deleted: the reference map and
\* the vault both keep the other tag and the other location.
C17_Witness ==
  \E s \in Main :
    /\ res.op = "DeleteMeta" /\ res.err = "nil"
    /\ h[s].st = "open"
    /\ \E k \in MetaKeys : ref[res.loc].meta[k] # NoVal
    /\ \E l \in Locs \ {res.loc} : ref[l].present
    /\ \A l \in Locs : SameCredential(decrypt(h[s]).creds[l], ref[l])


\* C18: Locations returns every location of the vault exactly once, in
\* ascending lexicographic order, and a second call with no mutation in
\* between returns the same list.
C18_LocationsSorted ==
  [][\A s \in Main :
       (res'.op = "Locations" /\ decrypt(h[s]).err = "nil") =>
         LET L == res'.locations IN
         /\ res'.err = "nil"
         /\ {L[i] : i \in DOMAIN L} = Keys(decrypt(h[s]).creds)
         /\ \A i, j \in DOMAIN L : i < j => Less(L[i], L[j])
         /\ (res.op = "Locations" /\ res.err = "nil") => L = res.locations]_allvars

\* Locations listed a vault of two locations, one a prefix of the other.
C18_Witness ==
  \E s \in Main :
    /\ res.op = "Locations" /\ res.err = "nil"
    /\ res.locations = <<"a", "ab">>
    /\ Keys(decrypt(h[s]).creds) = {"a", "ab"}


\* C19: Find returns the location equal to the search text when there is
\* one, even if other locations contain the text; otherwise some location
\* that contains the text, with its credential; and ErrNoSuchCredential
\* exactly when no location contains the text.
C19_Find ==
  [][\A s \in Main :
       (res'.op = "Find" /\ decrypt(h[s]).err = "nil") =>
         LET creds == decrypt(h[s]).creds
             K == Keys(creds)
             t == res'.text
         IN
         /\ t \in K => res'.err = "nil" /\ res'.loc = t
         /\ res'.err = "nil" =>
              /\ res'.loc \in K
              /\ Contains(res'.loc, t)
              /\ res'.cred = creds[res'.loc]
         /\ res'.err \in {"nil", "ErrNoSuchCredential"}
         /\ (res'.err = "ErrNoSuchCredential") =
              (\A l \in K : ~Contains(l, t))]_allvars

\* Find returned the location equal to the text although the other location
\* contains the text too.
C19_Witness ==
  \E s \in Main :
    /\ res.op = "Find" /\ res.err = "nil"
    /\ res.text = "a" /\ res.loc = "a"
    /\ Keys(decrypt(h[s]).creds) = {"a", "ab"}

C21_MergeConflict ==
  [][\A s \in Main :
       (/\ res'.op = "Merge"
        /\ decrypt(h[s]).err = "nil"
        /\ decrypt(h[res'.input]).err = "nil"
        /\ Keys(decrypt(h[s]).creds) \cap Keys(decrypt(h[res'.input]).creds) # {})
       => LET old == decrypt(h[s]).creds
              new == decrypt(h'[s]).creds
              oth == decrypt(h[res'.input]).creds
              col == Keys(old) \cap Keys(oth)
              first == CHOOSE c \in col : \A d \in col \ {c} : Less(c, d)
          IN /\ res'.err = "merge conflict"
             /\ res'.loc = first
             /\ \A l \in Locs :
                  IF l \in Keys(oth) /\ Less(l, first)
                    THEN SameCredential(new[l], oth[l])
                    ELSE new[l] = old[l]]_allvars

\* Merge stopped at the second location of the other vault after it had
\* added the first.
C21_Witness ==
  \E s \in Main :
    /\ res.op = "Merge" /\ res.err = "merge conflict" /\ res.loc = "ab"
    /\ res.input # s
    /\ decrypt(h[s]).err = "nil"
    /\ SameCredential(decrypt(h[s]).creds["a"], decrypt(h[res.input]).creds["a"])
    /\ ~SameCredential(decrypt(h[s]).creds["ab"], decrypt(h[res.input]).creds["ab"])

\* C22: when no location of the other vault is in the vault, Merge returns
\* nil, the vault then holds its own credentials and those of the other
\* vault with their username, password and metadata, and the other vault
\* holds what it held.
C22_MergeUnion ==
  [][\A s \in Main :
       (/\ res'.op = "Merge"
        /\ decrypt(h[s]).err = "nil"
        /\ decrypt(h[res'.input]).err = "nil"
        /\ Keys(decrypt(h[s]).creds) \cap Keys(decrypt(h[res'.input]).creds) = {})
       => LET old == decrypt(h[s]).creds
              new == decrypt(h'[s]).creds
              oth == decrypt(h[res'.input]).creds
          IN /\ res'.err = "nil"
             /\ Keys(new) = Keys(old) \cup Keys(oth)
             /\ \A l \in Keys(oth) : SameCredential(new[l], oth[l])
             /\ \A l \in Keys(old) : new[l] = old[l]
             /\ h'[res'.input] = h[res'.input]]_allvars

\* Merge brought both credentials of the other vault, metadata included,
\* into an empty vault.
C22_Witness ==
  \E s \in Main :
    /\ res.op = "Merge" /\ res.err = "nil"
    /\ decrypt(h[s]).err = "nil"
    /\ Keys(decrypt(h[res.input]).creds) = {"a", "ab"}
    /\ \A l \in Locs :
         /\ decrypt(h[s]).creds[l].meta["k"] = "m"
         /\ SameCredential(decrypt(h[s]).creds[l], decrypt(h[res.input]).creds[l])


\* C23: in LoadCSV a record whose Add fails is skipped and does not end the
\* import.  For a CSV whose records have the header's length and whose
\* metadata columns have distinct names, the call returns nil, the
\* credentials that were in the vault stay as they were, and the first
\* record of every new location is added with its other columns as metadata
\* under the header names.
C23_LoadCSVSkips ==
  [][\A s \in Main :
       (/\ res'.op = "LoadCSV"
        /\ decrypt(h[s]).err = "nil"
        /\ res'.input # <<>>)
       => LET c == res'.input
              header == c[1]
              li == FieldIndex(header, "loc")
              ui == FieldIndex(header, "user")
              pi == FieldIndex(header, "pass")
              metaCols == DOMAIN header \ {li, ui, pi}
              old == decrypt(h[s]).creds
              new == decrypt(h'[s]).creds
          IN (/\ \A i \in DOMAIN c : Len(c[i]) = Len(header)
              /\ \A x, y \in metaCols : header[x] = header[y] => x = y)
             => /\ res'.err = "nil"
                /\ \A l \in Keys(old) : new[l] = old[l]
                /\ \A i \in DOMAIN c \ {1} :
                     (/\ c[i][li] \notin Keys(old)
                      /\ \A j \in 2..(i - 1) : c[j][li] # c[i][li])
                     => /\ new[c[i][li]].present
                        /\ new[c[i][li]].Username = c[i][ui]
                        /\ new[c[i][li]].Password = c[i][pi]
                        /\ \A k \in MetaKeys :
                             new[c[i][li]].meta[k] =
                               IF \E x \in metaCols : header[x] = k
                                 THEN c[i][CHOOSE x \in metaCols : header[x] = k]
                                 ELSE NoVal]_allvars

\* An import passed over a record that repeats a location and still added
\* the record after it, with its metadata.
C23_Witness ==
  \E s \in Main :
    /\ res.op = "LoadCSV" /\ res.err = "nil"
    /\ Len(res.input) = 4
    /\ res.input[2][1] = res.input[3][1]
    /\ decrypt(h[s]).err = "nil"
    /\ decrypt(h[s]).creds["a"].Password = res.input[2][3]
    /\ decrypt(h[s]).creds["ab"].Password = res.input[4][3]
    /\ decrypt(h[s]).creds["ab"].meta["k"] = res.input[4][4]

\* C24: the count that LoadCSV returns equals the number of locations the
\* call added to the vault, whether it returns nil or an error.
C24_LoadCSVCount ==
  [][\A s \in Main :
       (res'.op = "LoadCSV" /\ decrypt(h[s]).err = "nil")
       => res'.n = Cardinality(Keys(decrypt(h'[s]).creds)
                               \ Keys(decrypt(h[s]).creds))]_allvars

(***************************************************************************)
(* Properties of the passphrase generator, stated over SpecGen.            *)
(***************************************************************************)
Returned == pw.pc \in {"return", "panic"}

\* C26: a call of GeneratePassphrase with length zero or with an empty
\* charset returns an error and no passphrase; every other call returns nil
\* and a passphrase of exactly length characters, each one of the charset.
C26_GeneratePassphrase ==
  Returned =>
    IF pw.length = 0 \/ pw.charset = <<>>
      THEN pw.pc = "return" /\ pw.err # "nil" /\ pw.out = <<>>
      ELSE /\ pw.pc = "return"
           /\ pw.err = "nil"
           /\ Len(pw.out) = pw.length
           /\ \A n \in 1..Len(pw.out) :
                \E m \in 1..Len(pw.charset) : pw.out[n] = pw.charset[m]

(***************************************************************************)
(* Properties of the interactive session, stated over SpecRepl.            *)
(***************************************************************************)
StopCauses == {"exit", "interrupt", "timeout"}

\* C27: when the session ends by exit, by ctrl-c or by the timeout, the
\* Save of the OnStop function has returned before Loop returns, hence
\* before the deferred Close and the end of the program; that Save runs on
\* the open handle while the lock of an opened vault is still held, and
\* when it returns nil the file at the vault path is the handle's vault.
C27_SavedOnStop ==
  /\ [](rp.pc \in {"returned", "exit"} =>
          rp.cause \in StopCauses /\ rp.saved # "none" /\ rp.stops = 1)
  /\ [][\A s \in Main :
          (rp.pc = "stopfunc" /\ rp'.pc # "stopfunc") =>
            /\ h'[s].st = "open"
            /\ h[s].lock # NoLock => lck'[LockPath(h[s].lock)]
            /\ rp'.saved = "nil" =>
                 fs'[vaultPath] = jsonEncode(vaultFileOf(h[s]))]_allvars
  /\ [][\A s \in Main :
          h'[s].st = "closed" => rp.pc = "panic" \/ rp.saved # "none"]_allvars

\* The session timed out after an add, the vault with the new credential was
\* saved, Loop returned and the deferred Close released the lock.
C27_Witness ==
  /\ rp.pc = "exit"
  /\ rp.cause = "timeout"
  /\ rp.saved = "nil"
  /\ fs[vaultPath] # SavedFile("P")
  /\ \E s \in Main : h[s].st = "closed" /\ ret[s] = Ret("Close", "nil")
  /\ ~lck[LockPath(vaultPath)]

\* C28: once the timeout has elapsed since the REPL was made or last
\* evaluated a line, the REPL has stopped (the stop channel is closed and the
\* OnStop function has run); evaluating a line, the empty one included,
\* restarts the timeout, and the timeout never stops the REPL earlier than
\* one full timeout after the last evaluated line.
C28_Timeout ==
  /\ []((rp.pc # "main" /\ rp.idle > timeout) => rp.closed /\ rp.stops > 0)
  /\ [][(rp.pc = "select" /\ rp'.pc = "select" /\ rp'.idle = 0) =>
          rp'.timer = timeout]_allvars
  /\ [][(~rp.closed /\ rp'.closed /\ rp'.cause = "timeout") =>
          rp.idle >= timeout]_allvars

(***************************************************************************)
(* Properties of the clipboard, stated over SpecClip and SpecClipLive.     *)
(***************************************************************************)
\* C29: no clear timer clears the clipboard while less than the clip
\* timeout has elapsed since the most recent Clip call began, whatever the
\* interleaving of the steps of a Clip call with the timers of earlier
\* calls.
C29_NoEarlyClear ==
  [][\A t \in Timers :
       (clip.timers[t].pc = "clear" /\ clip'.timers[t].pc = "none") =>
         clip.sinceCall >= clipTimeout]_allvars

\* C30: after a Clip call that no further Clip call follows, the clipboard
\* is eventually cleared: a clipboard that holds a passphrase leads to a
\* clipboard that is empty or to the start of a further Clip call.
C30_EventuallyCleared ==
  \A n \in {0, 1} :
    (clip.clipboard # "" /\ clip.gen = n) ~>
       (clip.clipboard = "" \/ clip.gen # n)

\* The timer of the most recent Clip call has found the timeout elapsed and
\* has cleared the clipboard; no other timer is pending.
C30_Witness ==
  /\ clip.clipboard = ""
  /\ clip.gen = 1
  /\ clip.call = "idle"
  /\ clip.since > clipTimeout
  /\ clip.sinceCall >= clipTimeout
  /\ \A t \in Timers : clip.timers[t] = NoTimer

(***************************************************************************)
(* Properties of concurrent calls on one handle, stated over SpecRace.     *)
(***************************************************************************)
\* What a call does to the credential map when it runs alone.
ApplyCall(creds, call) ==
  IF call.op = "Add" /\ ~creds[call.loc].present
    THEN [creds |-> [creds EXCEPT ![call.loc] = Credential("u", "x")],
          err |-> "nil", before |-> creds]
  ELSE IF call.op = "Add"
    THEN [creds |-> creds, err |-> "ErrCredentialExists", before |-> creds]
  ELSE [creds |-> creds, err |-> "nil", before |-> creds]

\* The result of goroutine t is the result r of its call in a serial order:
\* the same error and, for Save, a file that opens to the map of that point.
AsSerial(t, r) ==
  /\ g[t].err = r.err
  /\ g[t].op = "Save" =>
       LET d == decrypt(openVaultRead(jsonEncode(g[t].vf), "P"))
       IN d.err = "nil" /\ \A l \in Locs : SameCredential(d.creds[l], r.before[l])

\* C31: the outcome of two concurrent calls on one handle is the outcome of
\* one of their two serial orders: the errors they return, the map the
\* handle holds at the end and the vault that a Save wrote.  So two Adds of
\* distinct locations both take effect, and Save never writes a nonce with a
\* ciphertext sealed under another nonce.
C31_Serialized ==
  (\A t \in Goroutines : g[t].pc = "done") =>
    \E t1 \in Goroutines :
      LET t2 == CHOOSE t \in Goroutines : t # t1
          r1 == ApplyCall(ref, g[t1])
          r2 == ApplyCall(r1.creds, g[t2])
          d == decrypt(h["s1"])
      IN /\ AsSerial(t1, r1)
         /\ AsSerial(t2, r2)
         /\ d.err = "nil"
         /\ \A l \in Locs : SameCredential(d.creds[l], r2.creds[l])

(***************************************************************************)
(* Properties of two processes on one path, stated over SpecWriters.       *)
(***************************************************************************)
\* C32: while a handle that Open returned holds the lock on a path, the file
\* at that path changes only by the rename of a Save of that handle; the
\* Save of a handle that does not hold the lock, such as one that New made,
\* does not change it.
C32_SingleWriter ==
  [][\A p \in Paths :
       ((\E o \in Sessions : h[o].st = "open" /\ h[o].lock = p /\ lck[LockPath(p)])
        /\ fs'[p] # fs[p])
       => \E s \in Sessions :
            /\ h[s].st = "open" /\ h[s].lock = p
            /\ h[s].pc = "Save.Rename" /\ h'[s].pc = "idle"]_allvars

(***************************************************************************)
(* Properties of the layouts that Open reads, stated over Spec.            *)
(***************************************************************************)
\* C33: Open holds the lock on the absolute path when it starts to read the
\* file; it goes on to the legacy layout only when the file does not parse
\* or does not authenticate as the current layout; and when it returns no
\* handle for a file that exists, whatever the file holds, it returns the
\* decryption error.
C33_OpenFallback ==
  [][\A s \in Main :
       /\ (h[s].pc = "Lock.Create" /\ h'[s].pc = "openVault") =>
            h'[s].path \in Paths /\ lck'[LockPath(h'[s].path)]
       /\ (h[s].pc = "openVault" /\ h'[s].pc = "openVaultCompat") =>
            \/ ~jsonDecodes(fs[h[s].path])
            \/ decrypt(openVaultRead(fs[h[s].path], h[s].pass)).err # "nil"
       /\ (/\ h[s].pc \in {"openVault", "openVaultCompat"}
           /\ h'[s].pc = "idle"
           /\ h'[s].st # "open"
           /\ ret'[s].op = "Open"
           /\ fs[h[s].path].kind # "absent") =>
            ret'[s] = Ret("Open", "ErrCouldNotDecrypt")]_vars

\* C34: with the right passphrase Open returns a handle for a file in the
\* oldest layout nonce || ciphertext, after the current layout and the
\* layout salt || nonce || ciphertext have failed on it.
C34_OldestLayout ==
  [][\A s \in Main :
       (/\ h[s].pc \in {"openVault", "openVaultCompat"}
        /\ h'[s].pc = "idle"
        /\ ret'[s].op = "Open"
        /\ fs[h[s].path] = OldestFile(h[s].pass)) =>
         /\ ret'[s] = Ret("Open", "nil")
         /\ h'[s].st = "open"
         /\ decrypt(h'[s]).err = "nil"
         /\ \A l \in Locs : SameCredential(decrypt(h'[s]).creds[l], LegacyCreds[l])]_vars

\* The key argon2id derives from a passphrase and the salt and parameters
\* that handle v holds.
KeyOf(v, passphrase) ==
  argon2IDKey(passphrase, v.salt, v.argonTime, v.argonMemory, v.argonLanes)

\* C35: from New or Open to Close the key of a handle is the KDF of its
\* passphrase, its current salt and its KDF parameters, the passphrase being
\* the one given to New, to Open or to the latest ChangePassphrase; no other
\* call changes the passphrase, and the file a Save of the handle writes
\* opens with it.
C35_KeyMatchesSalt ==
  /\ [](\A s \in Main :
          h[s].st = "open" => h[s].secret = KeyOf(h[s], h[s].secret.pass))
  /\ [][\A s \in Main :
          /\ \A p \in Passphrases :
               New(s, p) => h'[s].st = "open" /\ h'[s].secret = KeyOf(h'[s], p)
          /\ \A p \in Passphrases :
               (ChangePassphrase(s, p) /\ decrypt(h[s]).err = "nil") =>
                 h'[s].secret = KeyOf(h'[s], p)
          /\ (h[s].st # "open" /\ h'[s].st = "open" /\ ret'[s].op = "Open") =>
               h'[s].secret = KeyOf(h'[s], h[s].pass)
          /\ (/\ h[s].st = "open" /\ h'[s].st = "open"
              /\ ~\E p \in Passphrases : ChangePassphrase(s, p)) =>
               h'[s].secret.pass = h[s].secret.pass
          /\ (h[s].st = "open" /\ h[s].pc = "Save.Rename" /\ fs' # fs) =>
               decrypt(openVaultRead(fs'[h[s].path], h[s].secret.pass)).err = "nil"]_vars

\* A handle opened with one passphrase and changed to another has saved.
C35_Witness ==
  \E s \in Main :
    /\ h[s].st = "open" /\ h[s].pc = "idle"
    /\ h[s].lock \in Paths
    /\ h[s].via = "changed"
    /\ ret[s] = Ret("Save", "nil")
    /\ fs[h[s].lock].kind = "json"
    /\ fs[h[s].lock].Salt = h[s].salt
    /\ decrypt(openVaultRead(fs[h[s].lock], h[s].secret.pass)).err = "nil"

\* What a handle holds in memory.
MemState(v) ==
  <<v.data, v.nonce, v.salt, v.secret, v.argonTime, v.argonMemory, v.argonLanes>>

ReadOps == {"Get", "Locations", "Find", "FindMeta"}

\* C36: Get, Locations, Find, FindMeta and every step of Save leave the
\* ciphertext, nonce, salt, key and KDF parameters of the handle as they
\* were, whether the call returns nil or an error.
C36_ReadsKeepHandle ==
  [][\A s \in Main :
       (\/ res'.op \in ReadOps /\ res' # res
        \/ h[s].pc \in SavePcs
        \/ h'[s].pc \in SavePcs
        \/ ret'[s].op = "Save" /\ ret' # ret) =>
         MemState(h'[s]) = MemState(h[s])]_allvars

\* A Get that returned a credential and a Save that returned nil have run on
\* a handle that still decrypts to what it held.
C36_Witness ==
  \E s \in Main :
    /\ h[s].st = "open" /\ h[s].pc = "idle"
    /\ res.op = "Get" /\ res.err = "nil"
    /\ ret[s] = Ret("Save", "nil")
    /\ decrypt(h[s]).err = "nil"
    /\ decrypt(h[s]).creds = ref
    /\ fs[vaultPath] = jsonEncode(vaultFileOf(h[s]))

\* C37: Close releases the lock of its own handle only: a Close of a handle
\* that is closed already leaves in place the lock that another handle has
\* taken on the same path since.
C37_CloseOwnLock ==
  [][\A s \in Sessions :
       (Close(s) /\ h[s].st = "closed") =>
         \A b \in Sessions \ {s} :
           (h[b].st = "open" /\ h[b].lock \in Paths /\ lck[LockPath(h[b].lock)])
             => lck'[LockPath(h[b].lock)]]_vars

\* C38: in every run of the session Stop runs at most once: the stop channel
\* is never closed a second time, the OnStop function is called at most once,
\* and once it has returned the next thing Loop does is return.
C38_StopOnce ==
  /\ [](rp.pc # "panic" /\ rp.stops <= 1)
  /\ [][(rp.stops = 1 /\ rp.pc = "select" /\ rp' # rp) =>
          rp'.pc = "returned"]_allvars

\* C39: once the reader has returned an error that is no interrupt, such as
\* the end of the input, Loop returns after finitely many steps, also when
\* every later read fails in the same way.
C39_ReaderErrorEnds ==
  rp.readerr ~> rp.pc \in {"returned", "exit"}

====
